---- MODULE Spec2Model ----
(***************************************************************************)
(* State-machine model of the concurrency primitives of package util:      *)
(*   PubSub          (src/email.go 73-141; an older copy that closes the   *)
(*                    channel in Unregister is src/unnamed/part_005)       *)
(*   WorkerPool      (src/workerPool.go)                                   *)
(*   RandomQueue     (src/randomQueue.go)                                  *)
(*   PubSubDebouncer (src/valueTracker.go 186-352)                         *)
(* Every goroutine is a process with a program counter; a step is one      *)
(* statement (or one critical section held under an exclusive lock).       *)
(***************************************************************************)
EXTENDS Integers, Sequences, FiniteSets, Bags, TLC

(* ------------------------------ bounds ------------------------------- *)
\* goroutines that call into a component concurrently
NumProcs == 2
\* channels Register may create in one run
MaxChans == 2
\* goroutines that call PubSub.Broadcast directly
NumCallers == 1
\* Broadcast calls begun in one run
MaxBroadcasts == 2
\* largest backlog given to NewWorkerPool
MaxBacklog == 1
\* largest numWorkers given to NewWorkerPool
MaxWorkers == 2
\* Post calls begun in one run
MaxPosts == 3
\* RandomQueue.Add calls in one run
MaxAdds == 3
\* largest value the fetch function or a SetValue caller supplies
MaxValue == 1
\* ticks the clock advances in one run
MaxTime == 3
\* the delay given to NewPubSubDebouncer, in ticks
Delay == 1
\* fetcherFunc invocations in one run
MaxFetches == 2
\* calls made on a PubSubDebouncer from outside in one run
MaxCalls == 3
\* longest slice given to Count
MaxLen == 3
\* largest runtime.NumCPU()
MaxCPU == 2

Procs == 1..NumProcs
Callers == 1..NumCallers
Workers == 1..MaxWorkers
\* buffSize arguments of PubSub.Register: synchronous and buffered
BuffSizes == {0, 1}
ChanIds == 1..MaxChans
\* a channel handle that was made elsewhere and never registered
ForeignChan == 0

\* the thresholds of SetValue's float64 and float32 branches, 0.00000001 and
\* 0.00001; floating-point values are counted in units of 1e-9
Eps64 == 10
Eps32 == 10000
\* values of T; 0 is the zero value
Values == 0..MaxValue
\* marks a GetValue call whose value another call replaced meanwhile
Overwritten == -1

VARIABLES
    \* PubSub.clients: the registered channels, in slice order
    clients,
    \* number of channels made by Register so far (the next handle is made+1)
    made,
    \* history: handles for which an Unregister call has returned
    unreg,
    \* per channel: buffer capacity given to make(chan T, buffSize)
    chanCap,
    \* per channel: values sent and not yet received
    chanBuf,
    \* per channel: whether close() was called on it
    chanClosed,
    \* per channel: values its subscriber has received, oldest first
    got,
    \* per goroutine inside Broadcast: "idle", "send" (in the range loop)
    bpc,
    \* per goroutine: Broadcast's local snapshot `buffer`
    bbuf,
    \* per goroutine: index of the range loop over buffer (1-based)
    bi,
    \* per goroutine: the msg argument of the running Broadcast
    bmsg,
    \* history: set of clients at the instant the running Broadcast held RLock
    bregs,
    \* history: number of Broadcast calls begun
    nbcast,
    \* history: bfrom[k] is the goroutine that made the k-th Broadcast call
    bfrom,
    \* the process died from an unrecovered panic
    panicked,
    \* WorkerPool: backlog and numWorkers given to NewWorkerPool
    backlog, numWorkers,
    \* WorkerPool.work: queued items, and whether close(wp.work) was called
    work, workClosed,
    \* WorkerPool.result: queued results
    result,
    \* WorkerPool.count (atomic.Int32)
    count,
    \* per worker goroutine: "none", "recv" (at range pool.work), "send"
    \* (holding f(w), at pool.result <-), "exit"
    wpc,
    \* per worker goroutine: the result it holds
    wval,
    \* per calling goroutine: "idle", "postSend" (inside Post, after
    \* count.Add(1)), "resultDec" (inside Result, after the receive)
    cpc,
    \* per calling goroutine: the item it posts or the result it received
    cval,
    \* history: number of Post calls begun (the k-th call posts item k)
    nPost,
    \* history: results returned by completed Result calls, in order
    returned,
    \* RandomQueue.files
    files,
    \* RandomQueue.lock: 0 when free, else the goroutine holding it
    rqLock,
    \* per goroutine: "idle", "add" (in Add, lock held), "swap", "shrink"
    \* (in GetAndRemove, lock held, before that statement)
    rpc,
    \* per goroutine: Add's argument f, or GetAndRemove's local f
    rf,
    \* per goroutine: GetAndRemove's local offset (1-based)
    roffset,
    \* history: number of Add calls that took the lock (the k-th adds item k)
    nAdd,
    \* history: number of Add calls that returned
    nAddDone,
    \* history: items returned by completed GetAndRemove calls, in order
    removed,
    \* PubSubDebouncer.lastValue and .timeOut (0 is the zero time.Time)
    lastValue, timeOut,
    \* the clock read by time.Now(), in ticks
    now,
    \* the context of the PubSubDebouncer is cancelled (ctx.Done() is closed)
    cancelled,
    \* per goroutine, its position in the PubSubDebouncer: "idle"; in GetValue
    \* "gvFetch" (RLock held, at the fetch), "gvRet" (RLock held, at return),
    \* "gvDone" (returned); in SetValue "svLock" (at d.lock.Lock()), "svBcast"
    \* (unlocked, at listeners.Broadcast), "svSend" (inside Broadcast); in
    \* Register "regAdd" (after the IsActive read); in fetcher "fFetch" (at
    \* d.fetcherFunc()), "fWait" (blocked in select)
    dpc,
    \* per goroutine: the value argument of SetValue
    dval,
    \* per goroutine: it runs fetcher() (it was started by go d.fetcher())
    dtask,
    \* per goroutine: wasActive of Register
    dwas,
    \* per goroutine: the instant the timer of time.After(d.delay) expires
    dwake,
    \* per goroutine: err of GetValue, and the value GetValue returned
    derr, dret,
    \* history, per GetValue call: where its time check fell (-1 before the
    \* deadline, 0 on it, 1 after it); number of fetches it invoked; the value
    \* it is due to return (the cached one, then the fetched one; Overwritten
    \* once another call wrote lastValue)
    dwhen, dn, dexp,
    \* history: number of fetcherFunc invocations
    nfetch,
    \* history: number of GetValue, SetValue, Register, Unregister and cancel
    \* calls begun
    ncalls,
    \* history, per channel: sends accepted from fetcher() after the cancel
    lateSends,
    \* history: the channels registered at the first cancel
    subsAtCancel,
    \* the type parameter T of the PubSubDebouncer as SetValue's type switch
    \* sees it: "float64", "float32" or "other"
    kind,
    \* history: the constructor calls the run has made as steps, each with
    \* its arguments and whether it returned an instance (it panicked if not)
    ctor,
    \* Debouncer.lastValue and .timeOut (the plain Debouncer)
    pdLastValue, pdTimeOut,
    \* history: number of Debouncer.GetValue calls made
    pdCalls,
    \* history, the last Debouncer.GetValue call: lastValue and timeOut before
    \* it, how its fetch went ("none" when it did not fetch) and the value the
    \* fetch gave, the instant of the call, the value and the error it returned
    pdCall,
    \* Count: the slice d
    data,
    \* Count: runtime.NumCPU(), and the local cpuCount (which the collecting
    \* loop counts down)
    numCPU, cpuCount,
    \* Count: the local total, and the value returned (-1 before the return)
    total, cret,
    \* Count, position of the calling goroutine: "call", "collect" (at
    \* <-results), "rest" (at `if blockRemainder > 0`), "done"
    cmain,
    \* Count, per started goroutine: "none", "loop" (in or after its range
    \* loop, before results <- count), "exit"
    gpc,
    \* Count, per started goroutine: its arguments s and e, the index its
    \* range loop is at (0-based, as in d[s:e]), and its local count
    gs, ge, gi, gcount,
    \* history: how many times f was applied to each element of d
    examined

psVars == <<clients, made, unreg, chanCap, chanBuf, chanClosed, got, bpc, bbuf, bi,
            bmsg, bregs, nbcast, bfrom>>

wpVars == <<backlog, numWorkers, work, workClosed, result, count, wpc, wval,
            cpc, cval, nPost, returned>>

rqVars == <<files, rqLock, rpc, rf, roffset, nAdd, nAddDone, removed>>

dcVars == <<lastValue, timeOut, now, cancelled, dpc, dval, dtask, dwas, dwake,
            derr, dret, dwhen, dn, dexp, nfetch, ncalls, lateSends, subsAtCancel,
            kind>>

\* the plain Debouncer
pdVars == <<pdLastValue, pdTimeOut, pdCalls, pdCall>>

\* one call of Count
ctVars == <<data, numCPU, cpuCount, total, cret, cmain, gpc, gs, ge, gi, gcount,
            examined>>

vars == <<psVars, panicked, wpVars, rqVars, dcVars, ctor, pdVars, ctVars>>

otherThanPubSub == <<wpVars, rqVars, dcVars, ctor, pdVars, ctVars>>

otherThanWorkerPool == <<psVars, rqVars, dcVars, ctor, pdVars, ctVars>>

otherThanRandomQueue == <<psVars, wpVars, dcVars, ctor, pdVars, ctVars>>

\* what no operation on a PubSubDebouncer changes: its type parameter and
\* the other objects
otherThanDebouncer == <<kind, wpVars, rqVars, ctor, pdVars, ctVars>>

(* ------------------------------ helpers ------------------------------ *)
Range(s) == {s[i] : i \in 1..Len(s)}

Count(v, s) == Cardinality({i \in 1..Len(s) : s[i] = v})

\* everything ever accepted by channel c, oldest first
Delivered(c) == got[c] \o chanBuf[c]

(* ------------------------------ PubSub ------------------------------- *)
PubSubInit ==
    /\ clients = <<>>
    /\ made = 0
    /\ unreg = {}
    /\ chanCap = [c \in ChanIds |-> 0]
    /\ chanBuf = [c \in ChanIds |-> <<>>]
    /\ chanClosed = [c \in ChanIds |-> FALSE]
    /\ got = [c \in ChanIds |-> <<>>]
    /\ bpc = [p \in Procs |-> "idle"]
    /\ bbuf = [p \in Procs |-> <<>>]
    /\ bi = [p \in Procs |-> 1]
    /\ bmsg = [p \in Procs |-> 0]
    /\ bregs = [p \in Procs |-> {}]
    /\ nbcast = 0
    /\ bfrom = <<>>

\* (defect: Broadcast keeps the read lock until it returns)
ReadLockKept(p) == bpc[p] = "send"

\* goroutine p holds s.RLock() of the PubSub between two steps: Broadcast
\* takes it for the copy of s.clients and gives it up before the first send,
\* Size and IsActive take it for one read, so no position of a goroutine
\* lies inside it
ReadLocked(p) == FALSE

\* s.Lock() can be taken (a section under the write lock is one step)
WriteLockFree == \A p \in Procs : ~ReadLocked(p)

\* c := make(chan T, buffSize); s.Lock(); s.clients = append(s.clients, c); s.Unlock()
PubSubRegister(cap) ==
    /\ WriteLockFree
    /\ made < MaxChans
    /\ made' = made + 1
    /\ chanCap' = [chanCap EXCEPT ![made + 1] = cap]
    /\ clients' = Append(clients, made + 1)
    /\ unreg' = unreg

Register(cap) ==
    /\ ~panicked
    /\ PubSubRegister(cap)
    /\ UNCHANGED <<chanBuf, chanClosed, got, bpc, bbuf, bi, bmsg, bregs, nbcast, bfrom,
                   panicked>>
    /\ UNCHANGED otherThanPubSub

\* index of the first element of s equal to c, 0 when there is none
IndexOf(s, c) ==
    IF c \in Range(s) THEN CHOOSE i \in 1..Len(s) :
                              s[i] = c /\ \A j \in 1..(i - 1) : s[j] # c
    ELSE 0

\* s.clients[i] = s.clients[len-1]; s.clients = s.clients[:len-1]
SwapRemove(s, i) ==
    [j \in 1..(Len(s) - 1) |-> IF j = i THEN s[Len(s)] ELSE s[j]]

\* (defect: the match is cut off without moving the last element into its place)
UnregisterTruncate(s, c) ==
    IF IndexOf(s, c) = 0 THEN s ELSE SubSeq(s, 1, Len(s) - 1)

\* the loop of Unregister: remove the first match, nothing when not found
UnregisterClients(s, c) ==
    IF IndexOf(s, c) = 0 THEN s ELSE SwapRemove(s, IndexOf(s, c))

\* the handles Unregister has returned for, after Unregister(c) (a handle no
\* Register has handed out yet is a foreign one)
Unregistered(u, c) == IF c \in 1..made THEN u \cup {c} ELSE u

\* PubSub.Unregister of src/email.go: the channel is not closed
Unregister(c) ==
    /\ ~panicked
    /\ WriteLockFree
    /\ clients' = UnregisterClients(clients, c)
    /\ unreg' = Unregistered(unreg, c)
    /\ UNCHANGED <<made, chanCap, chanBuf, chanClosed, got, bpc, bbuf, bi, bmsg,
                   bregs, nbcast, bfrom, panicked>>
    /\ UNCHANGED otherThanPubSub

\* PubSub.Unregister of src/unnamed/part_005: close(v) on the match
UnregisterClosing(c) ==
    /\ ~panicked
    /\ WriteLockFree
    /\ clients' = UnregisterClients(clients, c)
    /\ unreg' = Unregistered(unreg, c)
    /\ chanClosed' = IF IndexOf(clients, c) = 0 THEN chanClosed
                     ELSE [chanClosed EXCEPT ![c] = TRUE]
    /\ UNCHANGED <<made, chanCap, chanBuf, got, bpc, bbuf, bi, bmsg,
                   bregs, nbcast, bfrom, panicked>>
    /\ UNCHANGED otherThanPubSub

\* (defect: the snapshot misses the last registered channel)
SnapshotShort(s) == SubSeq(s, 1, Len(s) - 1)

\* buffer := make([]chan T, len(s.clients)); copy(buffer, s.clients)
Snapshot(s) == s

\* s.RLock(); snapshot; s.RUnlock()
BroadcastSnapshot(p, msg) ==
    /\ bpc[p] = "idle"
    /\ bpc' = [bpc EXCEPT ![p] = "send"]
    /\ bbuf' = [bbuf EXCEPT ![p] = Snapshot(clients)]
    /\ bi' = [bi EXCEPT ![p] = 1]
    /\ bmsg' = [bmsg EXCEPT ![p] = msg]
    /\ bregs' = [bregs EXCEPT ![p] = Range(clients)]

\* a caller enters Broadcast(msg); each call carries a fresh value
\* (goroutines are interchangeable: the lowest idle one makes the call)
BroadcastBegin(p) ==
    /\ ~panicked
    /\ \A q \in Callers : q < p => bpc[q] # "idle"
    /\ nbcast < MaxBroadcasts
    /\ nbcast' = nbcast + 1
    /\ bfrom' = Append(bfrom, p)
    /\ BroadcastSnapshot(p, nbcast + 1)
    /\ UNCHANGED <<clients, made, unreg, chanCap, chanBuf, chanClosed, got, panicked>>
    /\ UNCHANGED otherThanPubSub

\* (defect: the loop ranges over the live client list)
SendTargetCurrent(p) ==
    IF bi[p] <= Len(clients) THEN clients[bi[p]] ELSE bbuf[p][bi[p]]

\* the channel the range loop of p is about to send on
SendTarget(p) == bbuf[p][bi[p]]

InSendLoop(p) == bpc[p] = "send" /\ bi[p] <= Len(bbuf[p])

\* (defect: a send does not wait for room in the channel)
HasRoomAlways(c) == TRUE

\* the buffer of channel c can take one more value
HasRoom(c) == Len(chanBuf[c]) < chanCap[c]

\* v <- msg on a buffered channel with room
SendBuffered(p) ==
    /\ InSendLoop(p)
    /\ ~chanClosed[SendTarget(p)]
    /\ HasRoom(SendTarget(p))
    /\ chanBuf' = [chanBuf EXCEPT ![SendTarget(p)] = Append(@, bmsg[p])]
    /\ bi' = [bi EXCEPT ![p] = @ + 1]

BroadcastSendBuffered(p) ==
    /\ ~panicked
    /\ SendBuffered(p)
    /\ UNCHANGED <<clients, made, unreg, chanCap, chanClosed, got, bpc, bbuf, bmsg,
                   bregs, nbcast, bfrom, panicked>>
    /\ UNCHANGED otherThanPubSub

\* v <- msg on an unbuffered channel: completes only together with a receive
BroadcastSendSync(p) ==
    /\ ~panicked
    /\ InSendLoop(p)
    /\ ~chanClosed[SendTarget(p)]
    /\ chanCap[SendTarget(p)] = 0
    /\ got' = [got EXCEPT ![SendTarget(p)] = Append(@, bmsg[p])]
    /\ bi' = [bi EXCEPT ![p] = @ + 1]
    /\ UNCHANGED <<clients, made, unreg, chanCap, chanBuf, chanClosed, bpc, bbuf, bmsg,
                   bregs, nbcast, bfrom, panicked>>
    /\ UNCHANGED otherThanPubSub

\* v <- msg on a closed channel panics (also when the sender was blocked on it)
BroadcastSendClosed(p) ==
    /\ ~panicked
    /\ InSendLoop(p)
    /\ chanClosed[SendTarget(p)]
    /\ panicked' = TRUE
    /\ UNCHANGED psVars
    /\ UNCHANGED otherThanPubSub

\* the range loop is exhausted: Broadcast returns
\* (the locals of the finished call are dropped)
BroadcastFinish(p) ==
    /\ bpc[p] = "send"
    /\ bi[p] > Len(bbuf[p])
    /\ bpc' = [bpc EXCEPT ![p] = "idle"]
    /\ bbuf' = [bbuf EXCEPT ![p] = <<>>]
    /\ bi' = [bi EXCEPT ![p] = 1]
    /\ bmsg' = [bmsg EXCEPT ![p] = 0]
    /\ bregs' = [bregs EXCEPT ![p] = {}]

BroadcastReturn(p) ==
    /\ ~panicked
    /\ BroadcastFinish(p)
    /\ UNCHANGED <<clients, made, unreg, chanCap, chanBuf, chanClosed, got, nbcast, bfrom,
                   panicked>>
    /\ UNCHANGED otherThanPubSub

\* (defect: the subscriber files the value in front of the earlier ones)
ChanReceiveFront(c) ==
    /\ chanBuf[c] # <<>>
    /\ got' = [got EXCEPT ![c] = <<Head(chanBuf[c])>> \o @]
    /\ chanBuf' = [chanBuf EXCEPT ![c] = Tail(@)]

\* the subscriber of c executes <-c on a buffered channel holding a value
ChanReceive(c) ==
    /\ chanBuf[c] # <<>>
    /\ got' = [got EXCEPT ![c] = Append(@, Head(chanBuf[c]))]
    /\ chanBuf' = [chanBuf EXCEPT ![c] = Tail(@)]

Receive(c) ==
    /\ ~panicked
    /\ ChanReceive(c)
    /\ UNCHANGED <<clients, made, unreg, chanCap, chanClosed, bpc, bbuf, bi, bmsg,
                   bregs, nbcast, bfrom, panicked>>
    /\ UNCHANGED otherThanPubSub

\* Size(): len(s.clients)
Size == Len(clients)

\* IsActive(): len(s.clients) > 0
IsActive == Len(clients) > 0

(* ---------------------------- WorkerPool ----------------------------- *)
\* the worker function f handed to NewWorkerPool (any function; an injective
\* one that is not the identity keeps items and results apart)
WorkFn(w) == 2 * w

\* (defect: the loop that starts the workers runs once too often)
WorkerStartedOneMore(w, n) == w <= n + 1

\* for i := 0; i < numWorkers; i++ { go func() {...}() }: worker w of
\* 1..MaxWorkers is started
WorkerStarted(w, n) == w <= n

\* NewWorkerPool(f, backlog, numWorkers): both channels of capacity backlog,
\* numWorkers goroutines started at the range loop
WorkerPoolInit ==
    /\ backlog \in 0..MaxBacklog
    /\ numWorkers \in 1..MaxWorkers
    /\ work = <<>>
    /\ workClosed = FALSE
    /\ result = <<>>
    /\ count = 0
    /\ wpc = [w \in Workers |-> IF WorkerStarted(w, numWorkers) THEN "recv" ELSE "none"]
    /\ wval = [w \in Workers |-> 0]
    /\ cpc = [p \in Procs |-> "idle"]
    /\ cval = [p \in Procs |-> 0]
    /\ nPost = 0
    /\ returned = <<>>

\* a pool that is never used (the other components run alone)
WorkerPoolUnused ==
    /\ backlog = 0
    /\ numWorkers = 1
    /\ work = <<>>
    /\ workClosed = FALSE
    /\ result = <<>>
    /\ count = 0
    /\ wpc = [w \in Workers |-> "none"]
    /\ wval = [w \in Workers |-> 0]
    /\ cpc = [p \in Procs |-> "idle"]
    /\ cval = [p \in Procs |-> 0]
    /\ nPost = 0
    /\ returned = <<>>

\* Post: wp.count.Add(1)
PostAdd(p) ==
    /\ ~panicked
    /\ cpc[p] = "idle"
    /\ nPost < MaxPosts
    /\ count' = count + 1
    /\ nPost' = nPost + 1
    /\ cpc' = [cpc EXCEPT ![p] = "postSend"]
    /\ cval' = [cval EXCEPT ![p] = nPost + 1]
    /\ UNCHANGED <<backlog, numWorkers, work, workClosed, result, wpc, wval,
                   returned, panicked>>
    /\ UNCHANGED otherThanWorkerPool

\* (defect: the work queue takes items without a limit)
WorkHasRoomAlways == TRUE

\* the work queue, made with capacity backlog, can take one more item
WorkHasRoom == Len(work) < backlog

\* (defect: a closed queue takes items like an open one)
QueueOpenAlways == TRUE

\* wp.work has not been closed: a send on it can complete
QueueOpen == ~workClosed

\* Post: wp.work <- w, the queue has room
PostSendBuffered(p) ==
    /\ ~panicked
    /\ cpc[p] = "postSend"
    /\ QueueOpen
    /\ WorkHasRoom
    /\ work' = Append(work, cval[p])
    /\ cpc' = [cpc EXCEPT ![p] = "idle"]
    /\ cval' = [cval EXCEPT ![p] = 0]
    /\ UNCHANGED <<backlog, numWorkers, workClosed, result, count, wpc, wval,
                   nPost, returned, panicked>>
    /\ UNCHANGED otherThanWorkerPool

\* Post: wp.work <- w handed to a worker waiting at the range loop (the only
\* way a send on an unbuffered queue completes)
PostSendSync(p, w) ==
    /\ ~panicked
    /\ cpc[p] = "postSend"
    /\ QueueOpen
    /\ work = <<>>
    /\ wpc[w] = "recv"
    /\ wpc' = [wpc EXCEPT ![w] = "send"]
    /\ wval' = [wval EXCEPT ![w] = WorkFn(cval[p])]
    /\ cpc' = [cpc EXCEPT ![p] = "idle"]
    /\ cval' = [cval EXCEPT ![p] = 0]
    /\ UNCHANGED <<backlog, numWorkers, work, workClosed, result, count, nPost,
                   returned, panicked>>
    /\ UNCHANGED otherThanWorkerPool

\* Post: wp.work <- w on a closed queue panics
PostSendClosed(p) ==
    /\ ~panicked
    /\ cpc[p] = "postSend"
    /\ workClosed
    /\ panicked' = TRUE
    /\ UNCHANGED wpVars
    /\ UNCHANGED otherThanWorkerPool

\* (defect: the worker reads the head of the queue without removing it)
WorkTakeKeep(q) == q

\* for w := range pool.work: the queue after the worker took its head
WorkTake(q) == Tail(q)

\* worker: w := <-pool.work; r := pool.f(w)
WorkerRecv(w) ==
    /\ ~panicked
    /\ wpc[w] = "recv"
    /\ work # <<>>
    /\ work' = WorkTake(work)
    /\ wpc' = [wpc EXCEPT ![w] = "send"]
    /\ wval' = [wval EXCEPT ![w] = WorkFn(Head(work))]
    /\ UNCHANGED <<backlog, numWorkers, workClosed, result, count, cpc, cval,
                   nPost, returned, panicked>>
    /\ UNCHANGED otherThanWorkerPool

\* (defect: the loop ends at the close, whatever is left in the queue)
RangeEndsAtClose == workClosed

\* for w := range pool.work ends: the queue is closed and drained
RangeEnds == work = <<>> /\ workClosed

\* worker: the range loop ends when the queue is closed and drained
WorkerExit(w) ==
    /\ ~panicked
    /\ wpc[w] = "recv"
    /\ RangeEnds
    /\ wpc' = [wpc EXCEPT ![w] = "exit"]
    /\ UNCHANGED <<backlog, numWorkers, work, workClosed, result, count, wval,
                   cpc, cval, nPost, returned, panicked>>
    /\ UNCHANGED otherThanWorkerPool

\* (defect: the result is not put into the queue)
ResultPutLost(q, r) == q

\* pool.result <- r: the result queue after the send
ResultPut(q, r) == Append(q, r)

\* worker: pool.result <- r, the result queue has room
WorkerSendBuffered(w) ==
    /\ ~panicked
    /\ wpc[w] = "send"
    /\ Len(result) < backlog
    /\ result' = ResultPut(result, wval[w])
    /\ wpc' = [wpc EXCEPT ![w] = "recv"]
    /\ wval' = [wval EXCEPT ![w] = 0]
    /\ UNCHANGED <<backlog, numWorkers, work, workClosed, count, cpc, cval,
                   nPost, returned, panicked>>
    /\ UNCHANGED otherThanWorkerPool

\* Result: v := <-wp.result from the queue
ResultRecvBuffered(p) ==
    /\ ~panicked
    /\ cpc[p] = "idle"
    /\ result # <<>>
    /\ result' = Tail(result)
    /\ cpc' = [cpc EXCEPT ![p] = "resultDec"]
    /\ cval' = [cval EXCEPT ![p] = Head(result)]
    /\ UNCHANGED <<backlog, numWorkers, work, workClosed, count, wpc, wval,
                   nPost, returned, panicked>>
    /\ UNCHANGED otherThanWorkerPool

\* Result: v := <-wp.result taken directly from a worker blocked at its send
\* on the unbuffered result queue
ResultRecvSync(p, w) ==
    /\ ~panicked
    /\ cpc[p] = "idle"
    /\ backlog = 0
    /\ wpc[w] = "send"
    /\ wpc' = [wpc EXCEPT ![w] = "recv"]
    /\ wval' = [wval EXCEPT ![w] = 0]
    /\ cpc' = [cpc EXCEPT ![p] = "resultDec"]
    /\ cval' = [cval EXCEPT ![p] = wval[w]]
    /\ UNCHANGED <<backlog, numWorkers, work, workClosed, result, count, nPost,
                   returned, panicked>>
    /\ UNCHANGED otherThanWorkerPool

\* (defect: Result leaves the counter as it is)
CountKept(n) == n

\* wp.count.Add(-1)
CountDown(n) == n - 1

\* Result: wp.count.Add(-1); return v
ResultDec(p) ==
    /\ ~panicked
    /\ cpc[p] = "resultDec"
    /\ count' = CountDown(count)
    /\ returned' = Append(returned, cval[p])
    /\ cpc' = [cpc EXCEPT ![p] = "idle"]
    /\ cval' = [cval EXCEPT ![p] = 0]
    /\ UNCHANGED <<backlog, numWorkers, work, workClosed, result, wpc, wval,
                   nPost, panicked>>
    /\ UNCHANGED otherThanWorkerPool

\* Close: close(wp.work)
Close ==
    /\ ~panicked
    /\ ~workClosed
    /\ workClosed' = TRUE
    /\ UNCHANGED <<backlog, numWorkers, work, result, count, wpc, wval, cpc,
                   cval, nPost, returned, panicked>>
    /\ UNCHANGED otherThanWorkerPool

\* Close called again: close of a closed channel panics
CloseAgain ==
    /\ ~panicked
    /\ workClosed
    /\ panicked' = TRUE
    /\ UNCHANGED wpVars
    /\ UNCHANGED otherThanWorkerPool

\* Len(): wp.count.Load()
PoolLen == count

\* IsActive(): wp.count.Load() > 0
PoolIsActive == count > 0

(* ---------------------------- RandomQueue ---------------------------- *)
\* NewRandomQueue: lock: &sync.Mutex{}, files: make([]T, 0)
RandomQueueInit ==
    /\ files = <<>>
    /\ rqLock = 0
    /\ rpc = [p \in Procs |-> "idle"]
    /\ rf = [p \in Procs |-> 0]
    /\ roffset = [p \in Procs |-> 0]
    /\ nAdd = 0
    /\ nAddDone = 0
    /\ removed = <<>>

\* (defect: the mutex is not taken)
LockIgnored(p) == TRUE

\* r.lock.Lock() succeeds for goroutine p
LockFree(p) == rqLock = 0

\* Add: r.lock.Lock()
AddLock(p) ==
    /\ ~panicked
    /\ rpc[p] = "idle"
    /\ LockFree(p)
    /\ nAdd < MaxAdds
    /\ rqLock' = p
    /\ nAdd' = nAdd + 1
    /\ rpc' = [rpc EXCEPT ![p] = "add"]
    /\ rf' = [rf EXCEPT ![p] = nAdd + 1]
    /\ UNCHANGED <<files, roffset, nAddDone, removed, panicked>>
    /\ UNCHANGED otherThanRandomQueue

\* Add: r.files = append(r.files, f); r.lock.Unlock()
AddAppend(p) ==
    /\ ~panicked
    /\ rpc[p] = "add"
    /\ files' = Append(files, rf[p])
    /\ rqLock' = 0
    /\ nAddDone' = nAddDone + 1
    /\ rpc' = [rpc EXCEPT ![p] = "idle"]
    /\ rf' = [rf EXCEPT ![p] = 0]
    /\ UNCHANGED <<roffset, nAdd, removed, panicked>>
    /\ UNCHANGED otherThanRandomQueue

\* rand.Intn(n): any of the slots of a slice of length n (1-based here)
RandIntn(n) == 1..n

\* GetAndRemove: r.lock.Lock(); offset := rand.Intn(len(r.files));
\* f := r.files[offset]
GetLock(p, offset) ==
    /\ ~panicked
    /\ rpc[p] = "idle"
    /\ LockFree(p)
    /\ offset \in RandIntn(Len(files))
    /\ rqLock' = p
    /\ rpc' = [rpc EXCEPT ![p] = "swap"]
    /\ roffset' = [roffset EXCEPT ![p] = offset]
    /\ rf' = [rf EXCEPT ![p] = files[offset]]
    /\ UNCHANGED <<files, nAdd, nAddDone, removed, panicked>>
    /\ UNCHANGED otherThanRandomQueue

\* (defect: rand.Intn(0) comes back without a panic)
IntnSilent(n) == FALSE

\* rand.Intn(n) panics if n <= 0
IntnPanics(n) == n <= 0

\* GetAndRemove on an empty queue: rand.Intn(0) panics
GetEmpty(p) ==
    /\ ~panicked
    /\ rpc[p] = "idle"
    /\ LockFree(p)
    /\ Len(files) = 0
    /\ rqLock' = p
    /\ panicked' = IntnPanics(Len(files))
    /\ UNCHANGED <<files, rpc, rf, roffset, nAdd, nAddDone, removed>>
    /\ UNCHANGED otherThanRandomQueue

\* (defect: the last element is not moved into the freed slot)
MoveLastForgotten(s, offset) == s

\* r.files[offset] = r.files[len(r.files)-1]
MoveLast(s, offset) == [s EXCEPT ![offset] = s[Len(s)]]

\* GetAndRemove: move the last into the slice
GetSwap(p) ==
    /\ ~panicked
    /\ rpc[p] = "swap"
    /\ roffset[p] <= Len(files)
    /\ files' = MoveLast(files, roffset[p])
    /\ rpc' = [rpc EXCEPT ![p] = "shrink"]
    /\ UNCHANGED <<rqLock, rf, roffset, nAdd, nAddDone, removed, panicked>>
    /\ UNCHANGED otherThanRandomQueue

\* r.files = r.files[:len(r.files)-1]
Shorten(s) == SubSeq(s, 1, Len(s) - 1)

\* GetAndRemove: shorten the slice by 1; r.lock.Unlock(); return f
GetShrink(p) ==
    /\ ~panicked
    /\ rpc[p] = "shrink"
    /\ files' = Shorten(files)
    /\ rqLock' = 0
    /\ removed' = Append(removed, rf[p])
    /\ rpc' = [rpc EXCEPT ![p] = "idle"]
    /\ rf' = [rf EXCEPT ![p] = 0]
    /\ roffset' = [roffset EXCEPT ![p] = 0]
    /\ UNCHANGED <<nAdd, nAddDone, panicked>>
    /\ UNCHANGED otherThanRandomQueue

\* Len(): r.lock.Lock(); defer r.lock.Unlock(); return len(r.files)
QueueLen == Len(files)

(* -------------------------------- Count ------------------------------- *)
CPUs == 1..MaxCPU

\* the slices Count is called with: every []T of length 0..MaxLen
Slices == UNION {[1..n -> Values] : n \in 0..MaxLen}

\* the predicate f handed to Count (any pure predicate; this one is true of
\* some values and false of others)
Pred(ele) == ele % 2 = 1

\* the locals of a Count call that has not begun, no goroutine started
CountFrame ==
    /\ cpuCount = numCPU
    /\ total = 0
    /\ cret = -1
    /\ cmain = "call"
    /\ gpc = [g \in CPUs |-> "none"]
    /\ gs = [g \in CPUs |-> 0]
    /\ ge = [g \in CPUs |-> 0]
    /\ gi = [g \in CPUs |-> 0]
    /\ gcount = [g \in CPUs |-> 0]
    /\ examined = [k \in 1..MaxLen |-> 0]

\* Count is never called (the other components run alone)
CountUnused ==
    /\ data = <<>>
    /\ numCPU = 1
    /\ CountFrame

(* --------------------------- plain Debouncer --------------------------- *)
\* NewDebouncer(delay, fetcher): zero lastValue and timeOut
PlainDebouncerInit ==
    /\ pdLastValue = 0
    /\ pdTimeOut = 0
    /\ pdCalls = 0
    /\ pdCall = [value |-> 0, timeOut |-> 0, fetch |-> "none", fetched |-> 0,
                 at |-> 0, ret |-> 0, err |-> FALSE]

(* ------------------- PubSubDebouncer (LiveValueCache) ----------------- *)
\* NewPubSubDebouncer(delay, fetcher): zero lastValue and timeOut, no
\* listener, context not cancelled
DebouncerZero ==
    /\ lastValue = 0
    /\ timeOut = 0
    /\ now = 1
    /\ cancelled = FALSE
    /\ dpc = [p \in Procs |-> "idle"]
    /\ dval = [p \in Procs |-> 0]
    /\ dtask = [p \in Procs |-> FALSE]
    /\ dwas = [p \in Procs |-> FALSE]
    /\ dwake = [p \in Procs |-> 0]
    /\ derr = [p \in Procs |-> FALSE]
    /\ dret = [p \in Procs |-> 0]
    /\ dwhen = [p \in Procs |-> 0]
    /\ dn = [p \in Procs |-> 0]
    /\ dexp = [p \in Procs |-> 0]
    /\ nfetch = 0
    /\ ncalls = 0
    /\ lateSends = [c \in ChanIds |-> 0]
    /\ subsAtCancel = {}

\* NewPubSubDebouncer[T] with T not a floating-point type
DebouncerInit ==
    /\ DebouncerZero
    /\ kind = "other"

\* goroutines are interchangeable: the lowest idle one makes the next call
Caller(p) ==
    /\ dpc[p] = "idle"
    /\ \A q \in Procs : q < p => dpc[q] # "idle"

\* goroutines inside d.lock.RLock() ... RUnlock() of GetValue
Readers == {p \in Procs : dpc[p] \in {"gvFetch", "gvRet"}}

\* what d.fetcherFunc() can return: a value with a nil error, or the zero
\* value with an error
FetchResults == {<<v, TRUE>> : v \in Values} \cup {<<0, FALSE>>}

Sign(n) == IF n < 0 THEN -1 ELSE IF n = 0 THEN 0 ELSE 1

\* time passes
Tick ==
    /\ ~panicked
    /\ now < MaxTime
    /\ now' = now + 1
    /\ UNCHANGED <<lastValue, timeOut, cancelled, dpc, dval, dtask, dwas, dwake,
                   derr, dret, dwhen, dn, dexp, nfetch, lateSends, subsAtCancel>>
    /\ UNCHANGED <<psVars, panicked, ncalls>>
    /\ UNCHANGED otherThanDebouncer

\* (defect: the deadline is not looked at, every call refreshes)
ExpiredAlways(t) == TRUE

\* time.Now().After(d.timeOut)
Expired(t) == now > t

\* GetValue: d.lock.RLock(); if time.Now().After(d.timeOut)
GetValueCheck(p) ==
    /\ ~panicked
    /\ ncalls < MaxCalls
    /\ ncalls' = ncalls + 1
    /\ Caller(p)
    /\ dpc' = [dpc EXCEPT ![p] = IF Expired(timeOut) THEN "gvFetch" ELSE "gvRet"]
    /\ dwhen' = [dwhen EXCEPT ![p] = Sign(now - timeOut)]
    /\ dexp' = [dexp EXCEPT ![p] = lastValue]
    /\ UNCHANGED <<lastValue, timeOut, now, cancelled, dval, dtask, dwas, dwake,
                   derr, dret, dn, nfetch, lateSends, subsAtCancel>>
    /\ UNCHANGED <<psVars, panicked>>
    /\ UNCHANGED otherThanDebouncer

\* the calls whose return value is no longer the one they looked at
Overwrite(e, p) ==
    [q \in Procs |-> IF q # p /\ dpc[q] \in {"gvFetch", "gvRet"}
                     THEN Overwritten ELSE e[q]]

\* (defect: a failed fetch moves the deadline too)
DeadlineAlwaysAdvanced(ok) == now + Delay

\* if err == nil { d.timeOut = time.Now().Add(d.delay) }
DeadlineAfterFetch(ok) == IF ok THEN now + Delay ELSE timeOut

\* GetValue: d.lastValue, err = d.fetcherFunc();
\*           if err == nil { d.timeOut = time.Now().Add(d.delay) }
GetValueFetch(p, r) ==
    /\ ~panicked
    /\ dpc[p] = "gvFetch"
    /\ nfetch < MaxFetches
    /\ nfetch' = nfetch + 1
    /\ lastValue' = r[1]
    /\ derr' = [derr EXCEPT ![p] = ~r[2]]
    /\ timeOut' = DeadlineAfterFetch(r[2])
    /\ dn' = [dn EXCEPT ![p] = @ + 1]
    /\ dexp' = [Overwrite(dexp, p) EXCEPT ![p] = r[1]]
    /\ dpc' = [dpc EXCEPT ![p] = "gvRet"]
    /\ UNCHANGED <<now, cancelled, dval, dtask, dwas, dwake, dret, dwhen,
                   lateSends, subsAtCancel>>
    /\ UNCHANGED <<psVars, panicked, ncalls>>
    /\ UNCHANGED otherThanDebouncer

\* GetValue: return d.lastValue, err (and the deferred RUnlock)
GetValueReturn(p) ==
    /\ ~panicked
    /\ dpc[p] = "gvRet"
    /\ dret' = [dret EXCEPT ![p] = lastValue]
    /\ dpc' = [dpc EXCEPT ![p] = "gvDone"]
    /\ UNCHANGED <<lastValue, timeOut, now, cancelled, dval, dtask, dwas, dwake,
                   derr, dwhen, dn, dexp, nfetch, lateSends, subsAtCancel>>
    /\ UNCHANGED <<psVars, panicked, ncalls>>
    /\ UNCHANGED otherThanDebouncer

\* the caller of GetValue has taken the result
GetValueDone(p) ==
    /\ ~panicked
    /\ dpc[p] = "gvDone"
    /\ dpc' = [dpc EXCEPT ![p] = "idle"]
    /\ derr' = [derr EXCEPT ![p] = FALSE]
    /\ dret' = [dret EXCEPT ![p] = 0]
    /\ dwhen' = [dwhen EXCEPT ![p] = 0]
    /\ dn' = [dn EXCEPT ![p] = 0]
    /\ dexp' = [dexp EXCEPT ![p] = 0]
    /\ UNCHANGED <<lastValue, timeOut, now, cancelled, dval, dtask, dwas, dwake,
                   nfetch, lateSends, subsAtCancel>>
    /\ UNCHANGED <<psVars, panicked, ncalls>>
    /\ UNCHANGED otherThanDebouncer

\* (defect: every SetValue counts as a change)
ChangedAlways(old, new) == TRUE

\* SetValue, default branch of the type switch: d.lastValue != value
Changed(old, new) == old # new

Abs(x) == IF x < 0 THEN -x ELSE x

\* (defect: floating-point values compared like the others)
ChangedFloatExact(old, new, eps) == old # new

\* SetValue, float branches: math.Abs(d.lastValue - value) > epsilon
ChangedFloat(old, new, eps) == Abs(old - new) > eps

\* switch any(value).(type)
ValueChanged(old, new) ==
    CASE kind = "float64" -> ChangedFloat(old, new, Eps64)
      [] kind = "float32" -> ChangedFloat(old, new, Eps32)
      [] OTHER -> Changed(old, new)

\* where a goroutine goes when SetValue has returned: a caller is done; the
\* fetcher goes into select { case <-d.ctx.Done(): return;
\* case <-time.After(d.delay): } and leaves at once when Done is closed
AfterSetValue(p) == IF ~dtask[p] \/ cancelled THEN "idle" ELSE "fWait"

\* (defect: the select does not wait for the timer)
WakeAtOnce(p) == 0

\* the instant time.After(d.delay) fires for a fetcher entering the select
WakeAfterSetValue(p) == IF ~dtask[p] \/ cancelled THEN 0 ELSE now + Delay

\* SetValue between d.lock.Lock() and d.lock.Unlock(): waits for the readers
\* to leave, stores a changed value, always moves the deadline
SetValueLocked(p, value) ==
    /\ Readers = {}
    /\ ValueChanged(lastValue, value) => nbcast < MaxBroadcasts
    /\ lastValue' = IF ValueChanged(lastValue, value) THEN value ELSE lastValue
    /\ timeOut' = now + Delay
    /\ dval' = [dval EXCEPT ![p] = IF ValueChanged(lastValue, value) THEN value ELSE 0]
    /\ dpc' = [dpc EXCEPT ![p] = IF ValueChanged(lastValue, value) THEN "svBcast"
                                ELSE AfterSetValue(p)]
    /\ dwake' = [dwake EXCEPT ![p] = IF ValueChanged(lastValue, value) THEN 0
                                    ELSE WakeAfterSetValue(p)]
    /\ dtask' = [dtask EXCEPT ![p] = IF ValueChanged(lastValue, value) THEN @
                                    ELSE @ /\ ~cancelled]

\* a caller runs SetValue(value) up to the Unlock
SetValue(p, value) ==
    /\ ~panicked
    /\ ncalls < MaxCalls
    /\ ncalls' = ncalls + 1
    /\ Caller(p)
    /\ SetValueLocked(p, value)
    /\ UNCHANGED <<now, cancelled, dwas, derr, dret, dwhen, dn, dexp, nfetch,
                   lateSends, subsAtCancel>>
    /\ UNCHANGED <<psVars, panicked>>
    /\ UNCHANGED otherThanDebouncer

\* a caller enters SetValue(value) and arrives at d.Lock()
SetValueCall(p, value) ==
    /\ ~panicked
    /\ ncalls < MaxCalls
    /\ ncalls' = ncalls + 1
    /\ Caller(p)
    /\ dpc' = [dpc EXCEPT ![p] = "svLock"]
    /\ dval' = [dval EXCEPT ![p] = value]
    /\ UNCHANGED <<lastValue, timeOut, now, cancelled, dtask, dwas, dwake, derr,
                   dret, dwhen, dn, dexp, nfetch, lateSends, subsAtCancel>>
    /\ UNCHANGED <<psVars, panicked>>
    /\ UNCHANGED otherThanDebouncer

\* SetValue: if doBroadcast { d.listeners.Broadcast(value) }, up to the
\* snapshot of the listeners
SetValueBroadcast(p) ==
    /\ ~panicked
    /\ dpc[p] = "svBcast"
    /\ BroadcastSnapshot(p, dval[p])
    /\ nbcast' = nbcast + 1
    /\ bfrom' = bfrom
    /\ dpc' = [dpc EXCEPT ![p] = "svSend"]
    /\ UNCHANGED <<lastValue, timeOut, now, cancelled, dval, dtask, dwas, dwake,
                   derr, dret, dwhen, dn, dexp, nfetch, lateSends, subsAtCancel>>
    /\ UNCHANGED <<clients, made, unreg, chanCap, chanBuf, chanClosed, got, panicked, ncalls>>
    /\ UNCHANGED otherThanDebouncer

\* Broadcast inside SetValue: one send of the range loop
SetValueSend(p) ==
    /\ ~panicked
    /\ dpc[p] = "svSend"
    /\ SendBuffered(p)
    /\ lateSends' = IF dtask[p] /\ cancelled
                    THEN [lateSends EXCEPT ![SendTarget(p)] = @ + 1]
                    ELSE lateSends
    /\ UNCHANGED <<lastValue, timeOut, now, cancelled, dpc, dval, dtask, dwas,
                   dwake, derr, dret, dwhen, dn, dexp, nfetch, subsAtCancel>>
    /\ UNCHANGED <<clients, made, unreg, chanCap, chanClosed, got, bpc, bbuf, bmsg,
                   bregs, nbcast, bfrom, panicked, ncalls>>
    /\ UNCHANGED otherThanDebouncer

\* Broadcast and SetValue return
SetValueReturn(p) ==
    /\ ~panicked
    /\ dpc[p] = "svSend"
    /\ BroadcastFinish(p)
    /\ dpc' = [dpc EXCEPT ![p] = AfterSetValue(p)]
    /\ dwake' = [dwake EXCEPT ![p] = WakeAfterSetValue(p)]
    /\ dtask' = [dtask EXCEPT ![p] = @ /\ ~cancelled]
    /\ dval' = [dval EXCEPT ![p] = 0]
    /\ UNCHANGED <<lastValue, timeOut, now, cancelled, dwas, derr, dret, dwhen,
                   dn, dexp, nfetch, lateSends, subsAtCancel>>
    /\ UNCHANGED <<clients, made, unreg, chanCap, chanBuf, chanClosed, got, nbcast, bfrom,
                   panicked, ncalls>>
    /\ UNCHANGED otherThanDebouncer

\* Register: wasActive := d.listeners.IsActive()
RegisterCheck(p) ==
    /\ ~panicked
    /\ ncalls < MaxCalls
    /\ ncalls' = ncalls + 1
    /\ Caller(p)
    /\ made < MaxChans
    /\ dwas' = [dwas EXCEPT ![p] = IsActive]
    /\ dpc' = [dpc EXCEPT ![p] = "regAdd"]
    /\ UNCHANGED <<lastValue, timeOut, now, cancelled, dval, dtask, dwake, derr,
                   dret, dwhen, dn, dexp, nfetch, lateSends, subsAtCancel>>
    /\ UNCHANGED <<psVars, panicked>>
    /\ UNCHANGED otherThanDebouncer

\* (defect: every Register starts a task)
StartsTaskAlways(wasActive) == TRUE

\* if !wasActive { go d.fetcher() }
StartsTask(wasActive) == ~wasActive

\* Register: newListener := d.listeners.Register(1);
\*           if !wasActive { go d.fetcher() }
\* (the started goroutine takes over the slot of the returning caller)
RegisterAdd(p) ==
    /\ ~panicked
    /\ dpc[p] = "regAdd"
    /\ PubSubRegister(1)
    /\ dpc' = [dpc EXCEPT ![p] = IF StartsTask(dwas[p]) THEN "fFetch" ELSE "idle"]
    /\ dtask' = [dtask EXCEPT ![p] = StartsTask(dwas[p])]
    /\ dwas' = [dwas EXCEPT ![p] = FALSE]
    /\ UNCHANGED <<lastValue, timeOut, now, cancelled, dval, dwake, derr, dret,
                   dwhen, dn, dexp, nfetch, lateSends, subsAtCancel>>
    /\ UNCHANGED <<chanBuf, chanClosed, got, bpc, bbuf, bi, bmsg, bregs, nbcast, bfrom,
                   panicked, ncalls>>
    /\ UNCHANGED otherThanDebouncer

\* Unregister(c): d.listeners.Unregister(c)
DebouncerUnregister(c) ==
    /\ ~panicked
    /\ c <= made
    /\ ncalls < MaxCalls
    /\ ncalls' = ncalls + 1
    /\ WriteLockFree
    /\ clients' = UnregisterClients(clients, c)
    /\ unreg' = Unregistered(unreg, c)
    /\ UNCHANGED <<made, chanCap, chanBuf, chanClosed, got, bpc, bbuf, bi, bmsg,
                   bregs, nbcast, bfrom, panicked>>
    /\ UNCHANGED <<lastValue, timeOut, now, cancelled, dpc, dval, dtask, dwas,
                   dwake, derr, dret, dwhen, dn, dexp, nfetch, lateSends, subsAtCancel>>
    /\ UNCHANGED otherThanDebouncer

\* a subscriber takes a value from its channel
DebouncerReceive(c) ==
    /\ ~panicked
    /\ ChanReceive(c)
    /\ UNCHANGED <<clients, made, unreg, chanCap, chanClosed, bpc, bbuf, bi, bmsg,
                   bregs, nbcast, bfrom, panicked>>
    /\ UNCHANGED dcVars
    /\ UNCHANGED otherThanDebouncer

\* fetcher: value, err := d.fetcherFunc(); on an error straight to the select
FetcherFetch(p, r) ==
    /\ ~panicked
    /\ dpc[p] = "fFetch"
    /\ nfetch < MaxFetches
    /\ nfetch' = nfetch + 1
    /\ dval' = [dval EXCEPT ![p] = r[1]]
    /\ dpc' = [dpc EXCEPT ![p] = IF r[2] THEN "svLock" ELSE AfterSetValue(p)]
    /\ dwake' = [dwake EXCEPT ![p] = IF r[2] THEN 0 ELSE WakeAfterSetValue(p)]
    /\ dtask' = [dtask EXCEPT ![p] = IF r[2] THEN @ ELSE @ /\ ~cancelled]
    /\ UNCHANGED <<lastValue, timeOut, now, cancelled, dwas, derr, dret, dwhen,
                   dn, dexp, lateSends, subsAtCancel>>
    /\ UNCHANGED <<psVars, panicked, ncalls>>
    /\ UNCHANGED otherThanDebouncer

\* fetcher: if err == nil { d.SetValue(value) }, up to the Unlock
FetcherSetValue(p) ==
    /\ ~panicked
    /\ dpc[p] = "svLock"
    /\ SetValueLocked(p, dval[p])
    /\ UNCHANGED <<now, cancelled, dwas, derr, dret, dwhen, dn, dexp, nfetch,
                   lateSends, subsAtCancel>>
    /\ UNCHANGED <<psVars, panicked, ncalls>>
    /\ UNCHANGED otherThanDebouncer

\* (defect: the select falls through before the delay is over)
TimerFiredAlways(p) == TRUE

\* case <-time.After(d.delay): the timer set on entering the select fires
TimerFired(p) == now >= dwake[p]

\* fetcher: the timer of the select fires; if !d.listeners.IsActive() return
FetcherWake(p) ==
    /\ ~panicked
    /\ dpc[p] = "fWait"
    /\ TimerFired(p)
    /\ dpc' = [dpc EXCEPT ![p] = IF IsActive THEN "fFetch" ELSE "idle"]
    /\ dtask' = [dtask EXCEPT ![p] = IsActive]
    /\ dwake' = [dwake EXCEPT ![p] = 0]
    /\ UNCHANGED <<lastValue, timeOut, now, cancelled, dval, dwas, derr, dret,
                   dwhen, dn, dexp, nfetch, lateSends, subsAtCancel>>
    /\ UNCHANGED <<psVars, panicked, ncalls>>
    /\ UNCHANGED otherThanDebouncer

\* the cancel function of the context: Done is closed, every fetcher blocked
\* in the select returns; a repeated call finds nothing left to do
Cancel ==
    /\ ~panicked
    /\ ncalls < MaxCalls
    /\ ncalls' = ncalls + 1
    /\ cancelled' = TRUE
    /\ subsAtCancel' = IF cancelled THEN subsAtCancel ELSE Range(clients)
    /\ dpc' = [p \in Procs |-> IF dpc[p] = "fWait" THEN "idle" ELSE dpc[p]]
    /\ dtask' = [p \in Procs |-> dtask[p] /\ dpc[p] # "fWait"]
    /\ dwake' = [p \in Procs |-> 0]
    /\ UNCHANGED <<lastValue, timeOut, now, dval, dwas, derr, dret, dwhen, dn,
                   dexp, nfetch, lateSends>>
    /\ UNCHANGED <<psVars, panicked>>
    /\ UNCHANGED otherThanDebouncer

NextDebouncer ==
    \/ Tick
    \/ Cancel
    \/ \E p \in Procs : GetValueCheck(p)
    \/ \E p \in Procs, r \in FetchResults : GetValueFetch(p, r)
    \/ \E p \in Procs : GetValueReturn(p)
    \/ \E p \in Procs : GetValueDone(p)
    \/ \E p \in Procs, v \in Values : SetValue(p, v)
    \/ \E p \in Procs : SetValueBroadcast(p)
    \/ \E p \in Procs : SetValueSend(p)
    \/ \E p \in Procs : SetValueReturn(p)
    \/ \E p \in Procs : RegisterCheck(p)
    \/ \E p \in Procs : RegisterAdd(p)
    \/ \E c \in ChanIds : DebouncerUnregister(c)
    \/ \E c \in ChanIds : DebouncerReceive(c)
    \/ \E p \in Procs, r \in FetchResults : FetcherFetch(p, r)
    \/ \E p \in Procs : FetcherSetValue(p)
    \/ \E p \in Procs : FetcherWake(p)

InitDebouncer ==
    /\ DebouncerInit
    /\ PubSubInit
    /\ WorkerPoolUnused
    /\ RandomQueueInit
    /\ panicked = FALSE
    /\ ctor = {}
    /\ PlainDebouncerInit
    /\ CountUnused

SpecDebouncer == InitDebouncer /\ [][NextDebouncer]_vars

\* a PubSubDebouncer nobody registers with: GetValue and SetValue callers only
NextDebouncerCalls ==
    \/ Tick
    \/ \E p \in Procs : GetValueCheck(p)
    \/ \E p \in Procs, r \in FetchResults : GetValueFetch(p, r)
    \/ \E p \in Procs : GetValueReturn(p)
    \/ \E p \in Procs : GetValueDone(p)
    \/ \E p \in Procs, v \in Values : SetValue(p, v)
    \/ \E p \in Procs : SetValueBroadcast(p)
    \/ \E p \in Procs : SetValueReturn(p)

SpecDebouncerCalls == InitDebouncer /\ [][NextDebouncerCalls]_vars

\* a PubSubDebouncer used through Register, Unregister and cancel only,
\* within one delay window and before any subscriber has read its channel:
\* the clock stands still, so a task that has fetched stays in its wait
\* until it is cancelled
NextDebouncerWindow ==
    \/ Cancel
    \/ \E p \in Procs : RegisterCheck(p)
    \/ \E p \in Procs : RegisterAdd(p)
    \/ \E c \in ChanIds : DebouncerUnregister(c)
    \/ \E p \in Procs, r \in FetchResults : FetcherFetch(p, r)
    \/ \E p \in Procs : FetcherSetValue(p)
    \/ \E p \in Procs : SetValueBroadcast(p)
    \/ \E p \in Procs : SetValueSend(p)
    \/ \E p \in Procs : SetValueReturn(p)

SpecDebouncerWindow == InitDebouncer /\ [][NextDebouncerWindow]_vars

\* the arguments SetValue is called with: around the threshold for a
\* floating-point T
SetInputs ==
    CASE kind = "float64" -> {0, Eps64 - 1, Eps64, Eps64 + 1}
      [] kind = "float32" -> {0, Eps32 - 1, Eps32, Eps32 + 1}
      [] OTHER -> Values

\* a PubSubDebouncer[T] of any T within one delay window, before any
\* subscriber has read: Register, Unregister and SetValue callers, and the
\* first cycle of the task (FetcherSetValue is SetValue from d.Lock() to
\* d.Unlock(), for a caller as for the task)
NextDebouncerSet ==
    \/ \E p \in Procs : RegisterCheck(p)
    \/ \E p \in Procs : RegisterAdd(p)
    \/ \E c \in ChanIds : DebouncerUnregister(c)
    \/ \E p \in Procs, r \in FetchResults : FetcherFetch(p, r)
    \/ \E p \in Procs, v \in SetInputs : SetValueCall(p, v)
    \/ \E p \in Procs : FetcherSetValue(p)
    \/ \E p \in Procs : SetValueBroadcast(p)
    \/ \E p \in Procs : SetValueSend(p)
    \/ \E p \in Procs : SetValueReturn(p)

InitDebouncerSet ==
    /\ DebouncerZero
    /\ kind \in {"float64", "float32", "other"}
    /\ PubSubInit
    /\ WorkerPoolUnused
    /\ RandomQueueInit
    /\ panicked = FALSE
    /\ ctor = {}
    /\ PlainDebouncerInit
    /\ CountUnused

SpecDebouncerSet == InitDebouncerSet /\ [][NextDebouncerSet]_vars

\* one step of a goroutine running fetcher(): the fetch, SetValue with its
\* Broadcast, the timer of the select
FetcherStep(p) ==
    \/ \E r \in FetchResults : FetcherFetch(p, r)
    \/ FetcherSetValue(p)
    \/ SetValueBroadcast(p)
    \/ SetValueSend(p)
    \/ SetValueReturn(p)
    \/ FetcherWake(p)

\* the first and only Register on the PubSubDebouncer
RegisterFirst(p) ==
    /\ made = 0
    /\ \A q \in Procs : dpc[q] # "regAdd"
    /\ RegisterCheck(p)

\* a PubSubDebouncer with one subscriber, which registers once, reads its
\* channel when it likes and may unregister; the task it starts; cancel
NextDebouncerCycle ==
    \/ Tick
    \/ Cancel
    \/ \E p \in Procs : RegisterFirst(p)
    \/ \E p \in Procs : RegisterAdd(p)
    \/ \E c \in ChanIds : DebouncerUnregister(c)
    \/ \E c \in ChanIds : DebouncerReceive(c)
    \/ \E p \in Procs : FetcherStep(p)

SpecDebouncerCycle == InitDebouncer /\ [][NextDebouncerCycle]_vars

\* the fetch function of TestPubSubDebouncer_RegisterFetchesAndPublishes:
\* the number of the call, never an error
FetcherFetchCounting(p) == FetcherFetch(p, <<nfetch + 1, TRUE>>)

\* the test's deferred calls, made when it has received what it waits for:
\* d.Unregister(ch), then cancel()
UnregisterDeferred ==
    /\ clients = <<1>>
    /\ got[1] = [i \in 1..MaxFetches |-> i]
    /\ DebouncerUnregister(1)

CancelDeferred ==
    /\ made = 1 /\ clients = <<>>
    /\ ~cancelled
    /\ Cancel

\* a PubSubDebouncer over that fetch function with one subscriber, which
\* registers and keeps receiving
NextDebouncerCounting ==
    \/ Tick
    \/ UnregisterDeferred
    \/ CancelDeferred
    \/ \E p \in Procs : RegisterFirst(p)
    \/ \E p \in Procs : RegisterAdd(p)
    \/ \E c \in ChanIds : DebouncerReceive(c)
    \/ \E p \in Procs : FetcherFetchCounting(p)
    \/ \E p \in Procs : FetcherSetValue(p)
    \/ \E p \in Procs : SetValueBroadcast(p)
    \/ \E p \in Procs : SetValueSend(p)
    \/ \E p \in Procs : SetValueReturn(p)
    \/ \E p \in Procs : FetcherWake(p)

\* every goroutine that can take a step is run, time passes, and the
\* subscriber receives whatever is in its channel
SpecDebouncerCounting ==
    /\ InitDebouncer
    /\ [][NextDebouncerCounting]_vars
    /\ WF_vars(Tick)
    /\ \A p \in Procs : WF_vars(RegisterFirst(p) \/ RegisterAdd(p))
    /\ \A c \in ChanIds : WF_vars(DebouncerReceive(c))
    /\ \A p \in Procs :
          WF_vars(FetcherFetchCounting(p) \/ FetcherSetValue(p)
                    \/ SetValueBroadcast(p) \/ SetValueSend(p)
                    \/ SetValueReturn(p) \/ FetcherWake(p))

\* a PubSubDebouncer whose context is never cancelled, used through Register
\* and Unregister by subscribers that read their channels when they like
NextDebouncerTask ==
    \/ Tick
    \/ \E p \in Procs : RegisterCheck(p)
    \/ \E p \in Procs : RegisterAdd(p)
    \/ \E c \in ChanIds : DebouncerUnregister(c)
    \/ \E c \in ChanIds : DebouncerReceive(c)
    \/ \E p \in Procs : FetcherStep(p)

\* the Go scheduler runs every goroutine that can take a step and time
\* passes; nothing makes a subscriber read its channel
SpecDebouncerTask ==
    /\ InitDebouncer
    /\ [][NextDebouncerTask]_vars
    /\ WF_vars(Tick)
    /\ \A p \in Procs : WF_vars(RegisterAdd(p))
    /\ \A p \in Procs : WF_vars(FetcherStep(p))

InitPubSub ==
    /\ PubSubInit
    /\ WorkerPoolUnused
    /\ RandomQueueInit
    /\ DebouncerInit
    /\ panicked = FALSE
    /\ ctor = {}
    /\ PlainDebouncerInit
    /\ CountUnused

InitWorkerPool ==
    /\ WorkerPoolInit
    /\ PubSubInit
    /\ RandomQueueInit
    /\ DebouncerInit
    /\ panicked = FALSE
    /\ ctor = {}
    /\ PlainDebouncerInit
    /\ CountUnused

InitRandomQueue ==
    /\ RandomQueueInit
    /\ PubSubInit
    /\ WorkerPoolUnused
    /\ DebouncerInit
    /\ panicked = FALSE
    /\ ctor = {}
    /\ PlainDebouncerInit
    /\ CountUnused

NextRandomQueue ==
    \/ \E p \in Procs : AddLock(p)
    \/ \E p \in Procs : AddAppend(p)
    \/ \E p \in Procs, offset \in 1..MaxAdds : GetLock(p, offset)
    \/ \E p \in Procs : GetEmpty(p)
    \/ \E p \in Procs : GetSwap(p)
    \/ \E p \in Procs : GetShrink(p)

\* RandomQueue of src/randomQueue.go
SpecRandomQueue == InitRandomQueue /\ [][NextRandomQueue]_vars

NextWorkerPool ==
    \/ \E p \in Procs : PostAdd(p)
    \/ \E p \in Procs : PostSendBuffered(p)
    \/ \E p \in Procs, w \in Workers : PostSendSync(p, w)
    \/ \E p \in Procs : PostSendClosed(p)
    \/ \E w \in Workers : WorkerRecv(w)
    \/ \E w \in Workers : WorkerExit(w)
    \/ \E w \in Workers : WorkerSendBuffered(w)
    \/ \E p \in Procs : ResultRecvBuffered(p)
    \/ \E p \in Procs, w \in Workers : ResultRecvSync(p, w)
    \/ \E p \in Procs : ResultDec(p)
    \/ Close
    \/ CloseAgain

\* WorkerPool of src/workerPool.go
SpecWorkerPool == InitWorkerPool /\ [][NextWorkerPool]_vars

\* Post as the callers of a pool are meant to use it: not after Close, and
\* never by the last goroutine that is free to call Result
PostOpen(p) ==
    /\ ~workClosed
    /\ \E q \in Procs \ {p} : cpc[q] # "postSend"
    /\ PostAdd(p)

\* Close once every Post call has returned
CloseAfterPosts ==
    /\ \A p \in Procs : cpc[p] # "postSend"
    /\ Close

PostSendStep == \E p \in Procs :
    PostSendBuffered(p) \/ \E w \in Workers : PostSendSync(p, w)

WorkerStep(w) == WorkerRecv(w) \/ WorkerSendBuffered(w) \/ WorkerExit(w)

ResultStep == \E p \in Procs :
    ResultRecvBuffered(p) \/ ResultDec(p) \/ \E w \in Workers : ResultRecvSync(p, w)

NextWorkerPoolUsed ==
    \/ \E p \in Procs : PostOpen(p)
    \/ PostSendStep
    \/ \E w \in Workers : WorkerStep(w)
    \/ ResultStep
    \/ CloseAfterPosts

\* the pool with its goroutines scheduled fairly: every worker keeps running,
\* blocked sends and receives complete when they can, callers keep calling
\* Result while results are to be had, and Close is called in the end
SpecWorkerPoolFair ==
    /\ InitWorkerPool
    /\ [][NextWorkerPoolUsed]_vars
    /\ \A w \in Workers : WF_vars(WorkerStep(w))
    /\ WF_vars(PostSendStep)
    /\ WF_vars(ResultStep)
    /\ WF_vars(CloseAfterPosts)

NextPubSub ==
    \/ \E cap \in BuffSizes : Register(cap)
    \/ \E c \in Range(clients) \cup {ForeignChan} : Unregister(c)
    \/ \E p \in Callers : BroadcastBegin(p)
    \/ \E p \in Procs : BroadcastSendBuffered(p)
    \/ \E p \in Procs : BroadcastSendSync(p)
    \/ \E p \in Procs : BroadcastReturn(p)
    \/ \E c \in ChanIds : Receive(c)

\* PubSub of src/email.go
SpecPubSub == InitPubSub /\ [][NextPubSub]_vars

NextPubSubClosing ==
    \/ \E cap \in BuffSizes : Register(cap)
    \/ \E c \in Range(clients) \cup {ForeignChan} : UnregisterClosing(c)
    \/ \E p \in Callers : BroadcastBegin(p)
    \/ \E p \in Procs : BroadcastSendBuffered(p)
    \/ \E p \in Procs : BroadcastSendSync(p)
    \/ \E p \in Procs : BroadcastSendClosed(p)
    \/ \E p \in Procs : BroadcastReturn(p)
    \/ \E c \in ChanIds : Receive(c)

\* PubSub of src/unnamed/part_005
SpecPubSubClosing == InitPubSub /\ [][NextPubSubClosing]_vars

(* ------------------------- PubSub properties ------------------------- *)
\* the range loop of p has sent to every channel of its snapshot
LoopDone(p) == bpc[p] = "send" /\ bi[p] > Len(bbuf[p])

\* C1: when a Broadcast(v) has finished its loop, v has been accepted exactly
\* once by every channel that was registered when it took its snapshot and by
\* no other channel; with no channel registered the loop is finished at once,
\* so the call returns without a send.
C1_FanOut ==
    \A p \in Procs :
        /\ LoopDone(p) =>
              \A c \in ChanIds :
                  Count(bmsg[p], Delivered(c)) = IF c \in bregs[p] THEN 1 ELSE 0
        /\ (bpc[p] = "send" /\ bregs[p] = {}) => ENABLED BroadcastReturn(p)

\* a Broadcast over two registered channels has finished
C1_Witness == \E p \in Procs : LoopDone(p) /\ Cardinality(bregs[p]) >= 2

\* a step that removed a registered handle
UnregisterStep == Len(clients') < Len(clients)

\* C9: Unregister never makes Unregister or an in-flight Broadcast panic; a
\* handle that is not registered leaves the subscriber set as it is; a
\* registered one removes that handle only; and the step changes no channel
\* content and no Broadcast in flight, so delivery to the other handles is
\* unaffected.
C9_UnregisterSafe ==
    [][/\ ~panicked'
       /\ \A c \in (ChanIds \cup {ForeignChan}) \ Range(clients) :
              UnregisterClients(clients, c) = clients
       /\ UnregisterStep =>
              /\ \E c \in Range(clients) :
                     /\ Range(clients') = Range(clients) \ {c}
                     /\ Len(clients') = Len(clients) - 1
              /\ UNCHANGED <<chanBuf, got, bpc, bbuf, bi, bmsg>>]_vars

\* a handle was unregistered while a Broadcast that snapshotted it was in flight
C9_Witness ==
    \E p \in Procs :
        /\ InSendLoop(p)
        /\ SendTarget(p) \notin Range(clients)
        /\ \E c \in Range(clients) : c \in Range(bbuf[p])

\* C10: no subscriber channel is ever closed, and no Broadcast ever sends on
\* a closed channel (which would panic).
C10_NeverClosed ==
    /\ \A c \in ChanIds : ~chanClosed[c]
    /\ ~panicked

(* ----------------------- WorkerPool properties ----------------------- *)
\* the places where item i, or its result, currently is
ItemCopies(i) ==
    Cardinality({p \in Procs : cpc[p] = "postSend" /\ cval[p] = i})
    + Count(i, work)
    + Cardinality({w \in Workers : wpc[w] = "send" /\ wval[w] = WorkFn(i)})
    + Count(WorkFn(i), result)
    + Cardinality({p \in Procs : cpc[p] = "resultDec" /\ cval[p] = WorkFn(i)})
    + Count(WorkFn(i), returned)

\* C2: every posted item is, or has produced, exactly one thing in the pool
\* (no item lost, none processed twice), and once as many Result calls have
\* returned as Post calls were made, the results are exactly workFn of the
\* posted items, each once, and Len() = 0, IsActive() = false.
C2_Conservation ==
    /\ \A i \in 1..nPost : ItemCopies(i) = 1
    /\ Len(returned) = nPost =>
          /\ \A i \in 1..nPost : Count(WorkFn(i), returned) = 1
          /\ PoolLen = 0
          /\ ~PoolIsActive

\* three items went through a pool of two workers and all results are back
C2_Witness ==
    /\ nPost = 3
    /\ Len(returned) = 3
    /\ numWorkers = 2
    /\ returned # <<WorkFn(1), WorkFn(2), WorkFn(3)>>

(* ---------------------- RandomQueue properties ----------------------- *)
\* C8: whenever Len() can be read (the mutex is free), it equals the number
\* of completed Add calls minus the number of completed GetAndRemove calls,
\* every added item is either still in the queue or was returned, exactly
\* once; so after N Adds and N GetAndRemoves Len() is 0 and the returned
\* items are exactly the added ones.
C8_Conservation ==
    rqLock = 0 =>
        /\ QueueLen = nAddDone - Len(removed)
        /\ \A i \in 1..nAddDone : Count(i, files) + Count(i, removed) = 1
        /\ Len(removed) = nAddDone =>
              /\ QueueLen = 0
              /\ \A i \in 1..nAddDone : Count(i, removed) = 1

\* three items were added and all three came back, not in insertion order
C8_Witness ==
    /\ rqLock = 0
    /\ nAddDone = 3
    /\ Len(removed) = 3
    /\ removed # <<1, 2, 3>>


(* --------------------------- PubSubDebouncer -------------------------- *)
\* C3: a GetValue call whose time check falls before the deadline invokes no
\* fetch and returns the cached value with a nil error; one whose time check
\* falls after the deadline invokes the fetch function exactly once and
\* returns the value and the error of that fetch (in both cases the value a
\* concurrent refresh has put in its place meanwhile, if there was one).
C3_Debounce ==
    \A p \in Procs :
        /\ (dpc[p] \in {"gvRet", "gvDone"} /\ dwhen[p] = -1) =>
              (dn[p] = 0 /\ ~derr[p])
        /\ (dpc[p] \in {"gvRet", "gvDone"} /\ dwhen[p] = 1) => dn[p] = 1
        /\ (p \in Readers /\ dexp[p] # Overwritten) => dexp[p] = lastValue
        /\ (dpc[p] = "gvDone" /\ dexp[p] # Overwritten) => dret[p] = dexp[p]

\* a call after the deadline has fetched a new value and returned it, and a
\* second call, made before the new deadline, has returned it without a fetch
C3_Witness ==
    \E p, q \in Procs :
        /\ dpc[p] = "gvDone" /\ dwhen[p] = 1 /\ dn[p] = 1 /\ ~derr[p]
        /\ dpc[q] = "gvDone" /\ dwhen[q] = -1 /\ dn[q] = 0
        /\ dret[p] # 0 /\ dret[q] = dret[p]

FailedFetchStep(p) == dpc[p] = "gvFetch" /\ dpc'[p] = "gvRet" /\ derr'[p]

\* C4: a fetch that fails inside GetValue leaves the cached value untouched,
\* and the call returns that cached value together with the error.
C4_FailedFetchKeepsValue ==
    [][\A p \in Procs :
          /\ FailedFetchStep(p) => lastValue' = lastValue
          /\ (dpc[p] = "gvRet" /\ dpc'[p] = "gvDone" /\ derr[p]) =>
                (dret'[p] = lastValue /\ derr'[p])]_vars

\* C5: whichever operation changes the cached value while subscribers are
\* registered goes on to broadcast the new value to them.
C5_ChangePushed ==
    [][(lastValue' # lastValue /\ IsActive) =>
          \E p \in Procs : dpc'[p] = "svBcast" /\ dval'[p] = lastValue']_vars

\* C6: a subscriber registered at the cancel is sent at most one further
\* value by the background task once cancel() has been invoked.
C6_OneFurtherBroadcast ==
    \A c \in subsAtCancel : lateSends[c] <= 1

\* C7: once cancel() has been invoked no goroutine arrives at the fetch of
\* the background task any more, whatever Register and Unregister calls follow.
C7_NoFetchAfterCancel ==
    [][cancelled =>
          \A p \in Procs : dpc'[p] = "fFetch" => dpc[p] = "fFetch"]_vars

(* ------------------------ PubSub, continued --------------------------- *)
\* C11: a handle for which Unregister has returned is not registered any
\* more, so it is in no snapshot a Broadcast takes afterwards, and a Broadcast
\* delivers its message to no handle outside its snapshot; each such
\* Unregister made Size() one less (Size() is the number of handles handed
\* out minus the number unregistered) and left the other handles, each of
\* which is in the snapshot once and has the message once when the Broadcast
\* is through; once every handle is unregistered IsActive() is false.
C11_Unregistered ==
    /\ unreg \cap Range(clients) = {}
    /\ Size = made - Cardinality(unreg)
    /\ Cardinality(Range(clients)) = Len(clients)
    /\ (made > 0 /\ unreg = 1..made) => ~IsActive
    /\ \A p \in Procs : bpc[p] = "send" =>
          /\ Range(bbuf[p]) = bregs[p]
          /\ Len(bbuf[p]) = Cardinality(bregs[p])
          /\ \A h \in ChanIds \ bregs[p] : Count(bmsg[p], Delivered(h)) = 0
    /\ \A p \in Procs : LoopDone(p) =>
          \A c \in bregs[p] : Count(bmsg[p], Delivered(c)) = 1

\* a handle received one broadcast, was unregistered, and the next broadcast
\* has gone to the remaining handle only
C11_Witness ==
    \E p \in Procs, h \in unreg :
        /\ LoopDone(p) /\ bregs[p] # {} /\ h \notin bregs[p]
        /\ Count(bmsg[p] - 1, Delivered(h)) = 1
        /\ Count(bmsg[p], Delivered(h)) = 0
        /\ Size = 1 /\ IsActive

AllReturned == \A i \in 1..nPost : Count(WorkFn(i), returned) = 1

\* C14: every item passed to Post has its result returned by a Result call
\* in the end (from some point on every item posted has been returned), and
\* at no time more than once.
C14_Liveness ==
    /\ <>[]AllReturned
    /\ [](\A i \in 1..nPost : Count(WorkFn(i), returned) <= 1)

\* all the items were posted, the pool was closed, every result was returned
\* and every worker has left
C14_Witness ==
    /\ nPost = MaxPosts /\ workClosed
    /\ \A i \in 1..MaxPosts : Count(WorkFn(i), returned) = 1
    /\ \A w \in Workers : wpc[w] \in {"exit", "none"}

\* C15: Len() is the number of Post calls that have counted their item
\* minus the number of Result calls that have returned, it is never negative,
\* and IsActive() is true exactly when it is greater than zero.
C15_Counter ==
    /\ PoolLen = nPost - Len(returned)
    /\ PoolLen >= 0
    /\ PoolIsActive <=> nPost - Len(returned) > 0

\* one result was returned, a second one is taken out of the queue by a
\* Result call that has not returned yet, a third item is posted
C15_Witness ==
    /\ nPost = 3 /\ Len(returned) = 1 /\ PoolLen = 2
    /\ \E p \in Procs : cpc[p] = "resultDec"

PostBlocked(p) ==
    /\ ~ENABLED PostSendBuffered(p)
    /\ \A w \in Workers : ~ENABLED PostSendSync(p, w)

\* C16: neither queue ever holds more than backlog items; a Post cannot
\* return while the work queue holds backlog items (with backlog 0: while no
\* worker waits for an item); a worker holding a result takes no item, and
\* cannot hand the result over while the result queue holds backlog items
\* (with backlog 0: only straight to a Result call).
C16_Backpressure ==
    /\ Len(work) <= backlog /\ Len(result) <= backlog
    /\ \A p \in Procs :
          (cpc[p] = "postSend" /\ ~workClosed /\ Len(work) >= backlog
             /\ (backlog = 0 => \A w \in Workers : wpc[w] # "recv")) =>
          PostBlocked(p)
    /\ \A w \in Workers : wpc[w] = "send" =>
          /\ ~ENABLED WorkerRecv(w)
          /\ \A p \in Procs : ~ENABLED PostSendSync(p, w)
          /\ Len(result) >= backlog => ~ENABLED WorkerSendBuffered(w)

\* nobody calls Result: every worker holds a result it cannot hand over and
\* the producer is stuck in Post
C16_Witness ==
    /\ ~workClosed /\ ~panicked /\ Len(result) = backlog /\ Len(work) = backlog
    /\ \A w \in Workers : w <= numWorkers => wpc[w] = "send"
    /\ \E p \in Procs : cpc[p] = "postSend" /\ PostBlocked(p)
    /\ \A p \in Procs : cpc[p] # "resultDec"

AllExited == \A w \in Workers : wpc[w] \in {"exit", "none"}

RegisterReturns(p) == dpc[p] = "regAdd" /\ dpc'[p] # "regAdd"

\* C18: Register hands out a new, empty channel of capacity 1 and appends it
\* to the listeners; it starts the background task if and only if no
\* listener was registered when it looked (wasActive), and starts nothing
\* otherwise; nobody else's task is started by it.
C18_RegisterStartsTask ==
    [][\A p \in Procs :
          /\ (dpc[p] = "idle" /\ dpc'[p] = "regAdd") =>
                (dwas'[p] <=> Len(clients) > 0)
          /\ RegisterReturns(p) =>
                /\ made' = made + 1
                /\ clients' = Append(clients, made')
                /\ chanCap'[made'] = 1 /\ chanBuf'[made'] = <<>>
                /\ (dtask'[p] /\ dpc'[p] = "fFetch") <=> ~dwas[p]
                /\ dwas[p] => (dpc'[p] = "idle" /\ ~dtask'[p])
                /\ \A q \in Procs \ {p} : dtask'[q] = dtask[q]]_vars

\* the first Register has started the task and a second one, made while the
\* first subscriber was registered, has started none
C18_Witness ==
    /\ ncalls = 2 /\ Len(clients) = 2 /\ nfetch = 0 /\ ~cancelled
    /\ Cardinality({p \in Procs : dtask[p]}) = 1
    /\ \A p \in Procs : dpc[p] \in {"idle", "fFetch"}

\* the goroutines running fetcher()
Tasks == {p \in Procs : dtask[p]}

\* C19: whatever the interleaving of Register, Unregister and cancel, at most
\* one background fetch task is running at any time.
C19_OneTask == Cardinality(Tasks) <= 1

\* the GetValue calls that found the deadline passed and have yet to invoke
\* the fetch function
Authorized == {p \in Procs : dpc[p] = "gvFetch"}

\* C20: of the GetValue callers arriving after the deadline, at most one is
\* let through to the fetch function before the deadline is advanced.
C20_OneFetchPerWindow == Cardinality(Authorized) <= 1

\* no listener is registered and no Register is under way
Quiet == clients = <<>> /\ \A p \in Procs : dpc[p] # "regAdd"

\* the task stands where the bounds of the model end
AtBound(p) ==
    \/ dpc[p] = "fFetch" /\ nfetch >= MaxFetches
    \/ dpc[p] = "svLock" /\ nbcast >= MaxBroadcasts
    \/ dpc[p] = "fWait" /\ dwake[p] > MaxTime

\* C21: once the last subscriber is unregistered and no Register follows,
\* every background task ends by itself, without cancel.
C21_SelfTermination ==
    Quiet ~> (Tasks = {} \/ ~Quiet \/ \E p \in Tasks : AtBound(p))

\* SetValue(dval[p]) goes through its locked part
SetValuePasses(p) == dpc[p] = "svLock" /\ dpc'[p] # "svLock"

\* the value is stored and SetValue goes on to broadcast it
Stored(p) == lastValue' = dval[p] /\ dpc'[p] = "svBcast" /\ dval'[p] = dval[p]

\* the cached value stays and SetValue returns without a Broadcast
NotStored(p) ==
    /\ lastValue' = lastValue
    /\ dpc'[p] \in {"idle", "fWait"}
    /\ bpc'[p] = "idle"

\* the Broadcast of SetValue carries the value over the listeners registered
\* when it begins, puts it once into the channel of each, one after the
\* other, and SetValue returns after the last of them without another
\* Broadcast
OneBroadcast(p) ==
    /\ (dpc[p] = "svBcast" /\ dpc'[p] # "svBcast") =>
          /\ dpc'[p] = "svSend"
          /\ bmsg'[p] = dval[p]
          /\ bbuf'[p] = clients
          /\ bi'[p] = 1
    /\ (dpc[p] = "svSend" /\ dpc'[p] = "svSend" /\ bi'[p] # bi[p]) =>
          /\ bi'[p] = bi[p] + 1
          /\ chanBuf' = [chanBuf EXCEPT ![bbuf[p][bi[p]]] = Append(@, dval[p])]
    /\ (dpc[p] = "svSend" /\ dpc'[p] # "svSend") =>
          /\ bi[p] = Len(bbuf[p]) + 1
          /\ dpc'[p] \in {"idle", "fWait"}
    /\ dpc[p] = "svSend" => Cardinality(Range(bbuf[p])) = Len(bbuf[p])

\* C22: for a T that is not a floating-point type, SetValue(v) stores v and
\* broadcasts it exactly once to every registered subscriber if v is not
\* equal to the cached value, and does neither if it is equal.
C22_SetValueExact ==
    [][kind = "other" =>
          \A p \in Procs :
              /\ SetValuePasses(p) =>
                    (IF dval[p] # lastValue THEN Stored(p) ELSE NotStored(p))
              /\ OneBroadcast(p)]_vars

\* SetValue of a changed value by a caller has gone round two subscribers
C22_Witness ==
    /\ kind = "other"
    /\ \E p \in Procs :
          /\ ~dtask[p] /\ dpc[p] = "svSend" /\ LoopDone(p)
          /\ Len(bbuf[p]) = 2 /\ dval[p] = lastValue
          /\ \A k \in 1..2 : Count(dval[p], chanBuf[bbuf[p][k]]) = 1

\* the threshold SetValue's type switch applies to T
Epsilon == IF kind = "float64" THEN Eps64 ELSE Eps32

\* C23: for a floating-point T, SetValue of a value less than the epsilon away
\* from the cached one broadcasts nothing and leaves the cached value; of a
\* value more than the epsilon away it stores the value and makes exactly one
\* Broadcast carrying it.
C23_Epsilon ==
    [][(kind \in {"float64", "float32"}) =>
          \A p \in Procs :
              /\ (SetValuePasses(p) /\ Abs(dval[p] - lastValue) < Epsilon) =>
                    NotStored(p)
              /\ (SetValuePasses(p) /\ Abs(dval[p] - lastValue) > Epsilon) =>
                    Stored(p)
              /\ OneBroadcast(p)]_vars

\* of three calls one was Register and two were SetValue: one did nothing,
\* the one of a value beyond the epsilon has made the only Broadcast
C23_Witness ==
    /\ kind = "float64" /\ lastValue = Eps64 + 1
    /\ ncalls = 3 /\ made = 1 /\ unreg = {} /\ nbcast = 1
    /\ \E p \in Procs :
          /\ ~dtask[p] /\ dpc[p] = "svSend" /\ LoopDone(p)
          /\ Len(bbuf[p]) = 1 /\ dval[p] = lastValue
          /\ \A q \in Procs \ {p} : dpc[q] \in {"idle", "fWait"}

\* C24: a failed fetch inside GetValue leaves the deadline where it was and
\* gives its error to the calling goroutine and to no other, which returns
\* it; a GetValue call that finds the deadline passed invokes the fetch
\* function, so the next call tries again; a successful fetch stores the new
\* value and moves the deadline, and the call returns a nil error with that
\* value (unless another call has written the cached value meanwhile).
C24_FailedFetchRetried ==
    [][\A p \in Procs :
          /\ FailedFetchStep(p) =>
                /\ timeOut' = timeOut
                /\ \A q \in Procs \ {p} : derr'[q] = derr[q]
          /\ (dpc[p] = "gvRet" /\ dpc'[p] = "gvDone") =>
                /\ derr'[p] = derr[p]
                /\ (~derr[p] /\ dexp[p] # Overwritten) => dret'[p] = dexp[p]
          /\ (dpc[p] = "idle" /\ dpc'[p] \in {"gvFetch", "gvRet"}) =>
                (dpc'[p] = "gvFetch" <=> now > timeOut)
          /\ (dpc[p] = "gvFetch" /\ dpc'[p] = "gvRet" /\ ~derr'[p]) =>
                /\ lastValue' = dexp'[p]
                /\ timeOut' = now + Delay]_vars

\* one call has returned the error of its failed fetch; another call has
\* fetched again and returned the new value without an error
C24_Witness ==
    \E p, q \in Procs :
        /\ dpc[p] = "gvDone" /\ derr[p] /\ dn[p] = 1
        /\ dpc[q] = "gvDone" /\ ~derr[q] /\ dn[q] = 1 /\ dret[q] = 1
        /\ lastValue = 1 /\ timeOut = now + Delay

\* the step of a fetcher() whose fetch fails: from the fetch straight to the
\* select (or out of it, when the context is cancelled already)
FailedTaskFetch(p) == dpc[p] = "fFetch" /\ dpc'[p] \notin {"fFetch", "svLock"}

\* C25: a failed fetch of the background task changes neither the cached
\* value nor the deadline, broadcasts nothing and gives no error to anybody;
\* the task goes on to its wait, and when the wait is over it begins the next
\* cycle with a fetch if a listener is registered.
C25_ErrorSwallowed ==
    [][\A p \in Procs :
          /\ FailedTaskFetch(p) =>
                /\ lastValue' = lastValue /\ timeOut' = timeOut
                /\ derr' = derr /\ dret' = dret
                /\ chanBuf' = chanBuf /\ nbcast' = nbcast /\ bpc' = bpc
                /\ panicked' = panicked
                /\ ~cancelled => (dpc'[p] = "fWait" /\ dtask'[p]
                                   /\ dwake'[p] = now + Delay)
          /\ (dpc[p] = "fWait" /\ dpc'[p] # "fWait" /\ ~cancelled') =>
                /\ now >= dwake[p]
                /\ dpc'[p] = (IF clients # <<>> THEN "fFetch" ELSE "idle")]_vars

\* the task has gone through a failed fetch and its wait and stands at the
\* fetch of the next cycle; nothing was stored or sent
C25_Witness ==
    /\ nfetch = 1 /\ nbcast = 0 /\ lastValue = 0 /\ timeOut = 0 /\ ~cancelled
    /\ \E p \in Procs : dtask[p] /\ dpc[p] = "fFetch"
    /\ \A c \in ChanIds : Delivered(c) = <<>>

\* the first n values of the counting fetch function, in fetch order
Counted(n) == [i \in 1..n |-> i]

\* the task of the only subscriber's Register: fetches before any wait, and
\* again only when a full delay has passed since the value was stored; what
\* the subscriber's channel has accepted, and what the subscriber has
\* received, is the fetched values in fetch order, each once, and all of them
\* once the cycle is through
FetchedInOrder ==
    /\ (made = 1 /\ nfetch = 0) =>
          \E p \in Procs : dtask[p] /\ dpc[p] = "fFetch"
    /\ \A p \in Procs :
          /\ (dtask[p] /\ dpc[p] = "fFetch" /\ nfetch >= 1) => now >= timeOut
          /\ (dtask[p] /\ dpc[p] = "fWait") =>
                (dwake[p] >= timeOut /\ Delivered(1) = Counted(nfetch))
    /\ \A c \in ChanIds :
          /\ Len(Delivered(c)) <= nfetch
          /\ Delivered(c) = Counted(Len(Delivered(c)))
    /\ Cardinality(Tasks) <= 1

\* C26: with one subscriber that keeps receiving and a fetch function that
\* counts its calls, the task fetches at once after Register and then once
\* per delay, and the subscriber receives every fetched value exactly once,
\* in fetch order: 1, then 2, and so on as far as the model goes.
C26_FetchedAndPublished ==
    /\ []FetchedInOrder
    /\ <>(got[1] = Counted(MaxFetches) \/ \E p \in Tasks : AtBound(p))
    /\ <>(Len(got[1]) >= 1)

\* the subscriber has received 1 and then 2
C26_Witness == got[1] = <<1, 2>> /\ nfetch = 2 /\ clients = <<1>>

(* ----------------------------- PubSub, continued ---------------------- *)
\* C27: a Broadcast works on the channels registered when it took its
\* snapshot: the snapshot does not change while it sends, no channel outside
\* it ever holds the message (one registered later included), no channel
\* holds the message twice, and when the loop is through every channel of
\* the snapshot holds it once, those unregistered since included.
C27_SnapshotDelivery ==
    \A p \in Procs :
        bpc[p] = "send" =>
            /\ Range(bbuf[p]) = bregs[p]
            /\ \A c \in ChanIds :
                  Count(bmsg[p], Delivered(c)) <=
                      (IF c \in bregs[p] THEN 1 ELSE 0)
            /\ bi[p] > Len(bbuf[p]) =>
                  \A c \in bregs[p] \cap unreg : Count(bmsg[p], Delivered(c)) = 1

\* a finished Broadcast whose snapshot held a channel that was unregistered
\* before the send, and not the channel that was registered after the
\* snapshot
C27_Witness ==
    \E p \in Procs, c, d \in ChanIds :
        /\ LoopDone(p)
        /\ c \in bregs[p] /\ c \in unreg /\ Count(bmsg[p], Delivered(c)) = 1
        /\ d \in Range(clients) /\ d \notin bregs[p]
        /\ Count(bmsg[p], Delivered(d)) = 0

(* -------------------------- RandomQueue, continued -------------------- *)
\* goroutine p enters GetAndRemove and gets the lock
GetAndRemoveBegins(p) ==
    /\ rpc[p] = "idle" /\ rqLock = 0
    /\ rqLock' = p /\ rpc'[p] # "add"

\* C28: GetAndRemove on an empty queue panics: it returns nothing, and the
\* queue is left as it was; the call goes on to take an item only when
\* there is one.
C28_EmptyIsFatal ==
    [][\A p \in Procs :
          GetAndRemoveBegins(p) =>
              IF files = <<>>
              THEN panicked' /\ files' = files /\ removed' = removed
                   /\ rpc'[p] = "idle" /\ rf'[p] = 0
              ELSE ~panicked' /\ rpc'[p] = "swap"]_vars

\* the queue was filled and emptied again, and a further GetAndRemove has
\* panicked
C28_Witness ==
    /\ panicked /\ files = <<>>
    /\ nAddDone >= 1 /\ Len(removed) = nAddDone
    /\ rqLock # 0

\* x without its last element
AllButLast(x) == SubSeq(x, 1, Len(x) - 1)

\* C29: GetAndRemove on a queue of n >= 1 items picks a slot of the queue,
\* any of the n being possible, and returns the item in it; of that item one
\* occurrence leaves the queue, every other item stays (the last one moving
\* into the freed slot), and the length goes down by one.
C29_RemovesTheChosen ==
    [][\A p \in Procs :
          /\ (GetAndRemoveBegins(p) /\ files # <<>>) =>
                /\ roffset'[p] \in 1..Len(files)
                /\ rf'[p] = files[roffset'[p]]
                /\ files' = files
                /\ \A k \in 1..Len(files) : ENABLED GetLock(p, k)
          /\ (rpc[p] = "swap" /\ rpc'[p] = "shrink") =>
                /\ Len(files') = Len(files)
                /\ \A i \in 1..(Len(files) - 1) :
                      files'[i] = IF i = roffset[p] THEN files[Len(files)]
                                   ELSE files[i]
                /\ rf'[p] = rf[p]
          /\ (rpc[p] = "shrink" /\ rpc'[p] = "idle") =>
                /\ files' = AllButLast(files)
                /\ Len(files') = Len(files) - 1
                /\ removed' = Append(removed, rf[p])
                /\ rqLock' = 0]_vars

\* of three items the first was chosen and returned: the third stands in
\* its slot and the second where it was
C29_Witness ==
    /\ nAddDone = 3 /\ removed = <<1>> /\ files = <<3, 2>>
    /\ \A p \in Procs : rpc[p] = "idle"

(* -------------------------- WorkerPool, continued --------------------- *)
\* C30: once the pool is closed, a further Close can do nothing but panic,
\* and a Post can do nothing but panic: its item is neither queued nor handed
\* to a worker; nothing else makes the pool panic.
C30_UseAfterCloseIsFatal ==
    /\ panicked => workClosed
    /\ (workClosed /\ ~panicked) => (ENABLED CloseAgain /\ ~ENABLED Close)
    /\ \A p \in Procs :
          (workClosed /\ ~panicked /\ cpc[p] = "postSend") =>
              (ENABLED PostSendClosed(p) /\ PostBlocked(p))

\* a Post on the closed pool has panicked: its item is still in the caller's
\* hands
C30_Witness ==
    /\ panicked /\ workClosed
    /\ \E p \in Procs : cpc[p] = "postSend" /\ cval[p] = nPost
    /\ nPost = 1 /\ work = <<>> /\ returned = <<>>
    /\ \A w \in Workers : wpc[w] \in {"exit", "none"}

(* ---------------------------- construction ---------------------------- *)
\* 100 * time.Millisecond, the least delay NewPubSubDebouncer takes, in ticks
MinDelay == 1

\* arguments the constructors are called with: on both sides of their limits
BacklogInputs == -1..MaxBacklog

WorkerInputs == 0..MaxWorkers

\* a delay just below the minimum, and the delay the cache then runs with
DelayInputs == {MinDelay - 1, Delay}

\* no WorkerPool exists yet: no channel, no worker goroutine
WorkerPoolAbsent ==
    /\ backlog = 0
    /\ numWorkers = 0
    /\ work = <<>>
    /\ workClosed = FALSE
    /\ result = <<>>
    /\ count = 0
    /\ wpc = [w \in Workers |-> "none"]
    /\ wval = [w \in Workers |-> 0]
    /\ cpc = [p \in Procs |-> "idle"]
    /\ cval = [p \in Procs |-> 0]
    /\ nPost = 0
    /\ returned = <<>>

\* (defect: the number of workers is not looked at)
BadPoolBacklogOnly(b, n) == b < 0

\* if backlog < 0 { panic(...) }; if numWorkers < 1 { panic(...) }
BadPool(b, n) == b < 0 \/ n < 1

\* NewWorkerPool(f, backlog, numWorkers): panic on a bad argument; else both
\* channels are made with capacity backlog and numWorkers goroutines are
\* started at the range loop
NewWorkerPool(b, n) ==
    /\ ~panicked
    /\ ctor = {}
    /\ IF BadPool(b, n)
       THEN /\ panicked' = TRUE
            /\ ctor' = {[fn |-> "NewWorkerPool", args |-> <<b, n>>, ret |-> FALSE]}
            /\ UNCHANGED <<backlog, numWorkers, wpc>>
       ELSE /\ backlog' = b
            /\ numWorkers' = n
            /\ wpc' = [w \in Workers |-> IF WorkerStarted(w, n) THEN "recv" ELSE "none"]
            /\ ctor' = {[fn |-> "NewWorkerPool", args |-> <<b, n>>, ret |-> TRUE]}
            /\ UNCHANGED panicked
    /\ UNCHANGED <<work, workClosed, result, count, wval, cpc, cval, nPost, returned>>
    /\ UNCHANGED <<psVars, rqVars, dcVars, pdVars, ctVars>>

\* if delay < 100*time.Millisecond { panic(...) }
BadDelay(d) == d < MinDelay

\* NewPubSubDebouncer(delay, fetcher): panic on a short delay; else a struct
\* with an empty PubSub, the delay, the fetcher and a fresh context (zero
\* lastValue and timeOut); no goroutine is started
NewPubSubDebouncer(d) ==
    /\ ~panicked
    /\ ctor = {}
    /\ IF BadDelay(d)
       THEN /\ panicked' = TRUE
            /\ ctor' = {[fn |-> "NewPubSubDebouncer", args |-> <<d>>, ret |-> FALSE]}
       ELSE /\ ctor' = {[fn |-> "NewPubSubDebouncer", args |-> <<d>>, ret |-> TRUE]}
            /\ UNCHANGED panicked
    /\ UNCHANGED <<psVars, wpVars, rqVars, dcVars, pdVars, ctVars>>

\* the constructor has handed out an instance
PoolBuilt == \E c \in ctor : c.fn = "NewWorkerPool" /\ c.ret

CacheBuilt == \E c \in ctor : c.fn = "NewPubSubDebouncer" /\ c.ret

InitConstruct ==
    /\ PubSubInit
    /\ WorkerPoolAbsent
    /\ RandomQueueInit
    /\ DebouncerInit
    /\ panicked = FALSE
    /\ ctor = {}
    /\ PlainDebouncerInit
    /\ CountUnused

\* a program that constructs a WorkerPool or a PubSubDebouncer and then uses
\* the instance it was handed
NextConstruct ==
    \/ \E b \in BacklogInputs, n \in WorkerInputs : NewWorkerPool(b, n)
    \/ \E d \in DelayInputs : NewPubSubDebouncer(d)
    \/ PoolBuilt /\ \E p \in Procs : PostAdd(p)
    \/ PoolBuilt /\ \E p \in Procs : PostSendBuffered(p)
    \/ PoolBuilt /\ \E p \in Procs, w \in Workers : PostSendSync(p, w)
    \/ PoolBuilt /\ \E p \in Procs : PostSendClosed(p)
    \/ PoolBuilt /\ \E w \in Workers : WorkerRecv(w)
    \/ PoolBuilt /\ \E w \in Workers : WorkerExit(w)
    \/ PoolBuilt /\ \E w \in Workers : WorkerSendBuffered(w)
    \/ PoolBuilt /\ \E p \in Procs : ResultRecvBuffered(p)
    \/ PoolBuilt /\ \E p \in Procs, w \in Workers : ResultRecvSync(p, w)
    \/ PoolBuilt /\ \E p \in Procs : ResultDec(p)
    \/ PoolBuilt /\ Close
    \/ PoolBuilt /\ CloseAgain
    \/ CacheBuilt /\ Tick
    \/ CacheBuilt /\ Cancel
    \/ CacheBuilt /\ \E p \in Procs : RegisterFirst(p)
    \/ CacheBuilt /\ \E p \in Procs : RegisterAdd(p)
    \/ CacheBuilt /\ \E c \in ChanIds : DebouncerUnregister(c)
    \/ CacheBuilt /\ \E c \in ChanIds : DebouncerReceive(c)
    \/ CacheBuilt /\ \E p \in Procs : FetcherStep(p)

SpecConstruct == InitConstruct /\ [][NextConstruct]_vars

\* C31: NewPubSubDebouncer panics exactly when delay < 100ms, NewWorkerPool
\* exactly when backlog < 0 or numWorkers < 1; a constructor that panicked
\* has handed out no instance, and no worker goroutine and no background
\* task was started (nor can any be started later); one that returned has
\* started exactly numWorkers workers
C31_ConstructionFatal ==
    \A c \in ctor :
        /\ c.fn = "NewWorkerPool" =>
              (~c.ret <=> (c.args[1] < 0 \/ c.args[2] < 1))
        /\ c.fn = "NewPubSubDebouncer" => (~c.ret <=> c.args[1] < MinDelay)
        /\ ~c.ret =>
              /\ panicked
              /\ ~PoolBuilt /\ ~CacheBuilt
              /\ \A w \in Workers : wpc[w] = "none"
              /\ \A p \in Procs : dpc[p] = "idle" /\ ~dtask[p]
              /\ made = 0 /\ nPost = 0 /\ nfetch = 0
        /\ (c.fn = "NewWorkerPool" /\ c.ret) =>
              /\ backlog = c.args[1] /\ numWorkers = c.args[2]
              /\ \A w \in Workers : wpc[w] # "none" <=> w <= numWorkers

\* NewWorkerPool(f, 0, 0) has panicked
C31_Witness ==
    /\ panicked
    /\ \E c \in ctor : c.fn = "NewWorkerPool" /\ c.args = <<0, 0>> /\ ~c.ret

(* ------------------- plain Debouncer: GetValue ------------------------ *)
\* (defect: the fetched value is stored before the error is looked at)
PlainStoredAlways(old, r) == r[1]

\* if err == nil { ...; d.lastValue = value }
PlainStored(old, r) == IF r[2] THEN r[1] ELSE old

\* if err == nil { d.timeOut = time.Now().Add(d.delay); ... }
PlainDeadline(old, r) == IF r[2] THEN now + Delay ELSE old

\* Debouncer.GetValue, called by the one goroutine that uses the Debouncer;
\* r is what d.fetcher() gives if it is called
PlainGetValue(r) ==
    /\ ~panicked
    /\ pdCalls < MaxCalls
    /\ pdCalls' = pdCalls + 1
    /\ IF Expired(pdTimeOut)
       THEN /\ pdLastValue' = PlainStored(pdLastValue, r)
            /\ pdTimeOut' = PlainDeadline(pdTimeOut, r)
            /\ pdCall' = [value |-> pdLastValue, timeOut |-> pdTimeOut,
                          fetch |-> IF r[2] THEN "ok" ELSE "failed",
                          fetched |-> r[1], at |-> now,
                          ret |-> PlainStored(pdLastValue, r), err |-> FALSE]
       ELSE /\ UNCHANGED <<pdLastValue, pdTimeOut>>
            /\ pdCall' = [value |-> pdLastValue, timeOut |-> pdTimeOut,
                          fetch |-> "none", fetched |-> 0, at |-> now,
                          ret |-> pdLastValue, err |-> FALSE]
    /\ UNCHANGED <<psVars, panicked, wpVars, rqVars, dcVars, ctor, ctVars>>

\* a Debouncer used by one goroutine while time passes
NextPlain ==
    \/ Tick
    \/ \E r \in FetchResults : PlainGetValue(r)

SpecPlain == InitDebouncer /\ [][NextPlain]_vars

RangeLoopDone(c) == chanClosed[c] /\ chanBuf[c] = <<>>

\* C33: PubSubDebouncer.Unregister(c) closes c, so a consumer that loops
\* over the channel with `for v := range c` leaves its loop once Unregister
\* has returned
C33_UnregisterEndsConsumer ==
    \A c \in ChanIds : (c \in unreg) ~> RangeLoopDone(c)

(* ------------------------------ Count: steps -------------------------- *)
\* block := len(d) / cpuCount
Block == Len(data) \div numCPU

\* (defect: the elements past the last block are left out)
BlockRemainderNone == Len(data) % 1

\* blockRemainder := len(d) % cpuCount
BlockRemainder == Len(data) % numCPU

\* Count up to the loop that starts the goroutines: when block > 0 one
\* goroutine per CPU is started with (start, start+block), start growing by
\* block each time; else straight to the remainder
CountStart ==
    /\ ~panicked
    /\ cmain = "call"
    /\ IF Block > 0
       THEN /\ gpc' = [g \in CPUs |-> IF g <= cpuCount THEN "loop" ELSE "none"]
            /\ gs' = [g \in CPUs |-> IF g <= cpuCount THEN (g - 1) * Block ELSE 0]
            /\ ge' = [g \in CPUs |-> IF g <= cpuCount THEN (g - 1) * Block + Block
                                     ELSE 0]
            /\ gi' = [g \in CPUs |-> IF g <= cpuCount THEN (g - 1) * Block ELSE 0]
            /\ cmain' = "collect"
       ELSE /\ UNCHANGED <<gpc, gs, ge, gi>>
            /\ cmain' = "rest"
    /\ UNCHANGED <<data, numCPU, cpuCount, total, cret, gcount, examined>>
    /\ UNCHANGED <<psVars, panicked, wpVars, rqVars, dcVars, ctor, pdVars>>

\* a goroutine: one iteration of `for _, ele := range d[s:e]`
CountExamine(g) ==
    /\ ~panicked
    /\ gpc[g] = "loop"
    /\ gi[g] < ge[g]
    /\ gcount' = [gcount EXCEPT ![g] = IF Pred(data[gi[g] + 1]) THEN @ + 1 ELSE @]
    /\ examined' = [examined EXCEPT ![gi[g] + 1] = @ + 1]
    /\ gi' = [gi EXCEPT ![g] = @ + 1]
    /\ UNCHANGED <<data, numCPU, cpuCount, total, cret, cmain, gpc, gs, ge>>
    /\ UNCHANGED <<psVars, panicked, wpVars, rqVars, dcVars, ctor, pdVars>>

\* results <- count in a goroutine whose loop is over meets total += <-results
\* in the caller (results is unbuffered); cpuCount-- and the loop test
CountCollect(g) ==
    /\ ~panicked
    /\ cmain = "collect"
    /\ cpuCount > 0
    /\ gpc[g] = "loop"
    /\ gi[g] >= ge[g]
    /\ total' = total + gcount[g]
    /\ cpuCount' = cpuCount - 1
    /\ gpc' = [gpc EXCEPT ![g] = "exit"]
    /\ cmain' = IF cpuCount - 1 > 0 THEN "collect" ELSE "rest"
    /\ UNCHANGED <<data, numCPU, cret, gs, ge, gi, gcount, examined>>
    /\ UNCHANGED <<psVars, panicked, wpVars, rqVars, dcVars, ctor, pdVars>>

\* the indices (1-based) of d[len(d)-blockRemainder:]
RestIndices == (Len(data) - BlockRemainder + 1)..Len(data)

\* if blockRemainder > 0 { for _, ele := range d[len(d)-blockRemainder:] ... };
\* return total
CountRest ==
    /\ ~panicked
    /\ cmain = "rest"
    /\ total' = total + Cardinality({k \in RestIndices : Pred(data[k])})
    /\ examined' = [k \in 1..MaxLen |-> IF k \in RestIndices THEN examined[k] + 1
                                        ELSE examined[k]]
    /\ cret' = total'
    /\ cmain' = "done"
    /\ UNCHANGED <<data, numCPU, cpuCount, gpc, gs, ge, gi, gcount>>
    /\ UNCHANGED <<psVars, panicked, wpVars, rqVars, dcVars, ctor, pdVars>>

\* Count called with any slice on a machine with any number of CPUs
InitCount ==
    /\ data \in Slices
    /\ numCPU \in CPUs
    /\ CountFrame
    /\ PubSubInit
    /\ WorkerPoolUnused
    /\ RandomQueueInit
    /\ DebouncerInit
    /\ PlainDebouncerInit
    /\ panicked = FALSE
    /\ ctor = {}

NextCount ==
    \/ CountStart
    \/ \E g \in CPUs : CountExamine(g)
    \/ \E g \in CPUs : CountCollect(g)
    \/ CountRest

SpecCount == InitCount /\ [][NextCount]_vars

\* C34: Count returns the number of elements of d that satisfy f, whatever
\* the length of d and the number of CPUs: when it has returned, f was
\* applied to every element exactly once (never twice at any moment), and
\* every goroutine it started has reported its count and is gone
C34_CountExact ==
    /\ \A k \in 1..MaxLen : examined[k] <= 1
    /\ cmain = "done" =>
          /\ cret = Cardinality({k \in 1..Len(data) : Pred(data[k])})
          /\ \A k \in 1..Len(data) : examined[k] = 1
          /\ \A g \in CPUs : gpc[g] = (IF g <= numCPU /\ Len(data) >= numCPU
                                       THEN "exit" ELSE "none")
    /\ cmain # "done" => cret = -1

\* Count has returned 2 for a slice of three elements on two CPUs: one
\* element per block and one in the remainder
C34_Witness ==
    /\ cmain = "done"
    /\ numCPU = 2
    /\ Len(data) = 3
    /\ data[3] = 1
    /\ cret = 2

\* a goroutine stands at the assignments to d.lastValue and d.timeOut inside
\* GetValue (it holds d's lock in read mode); SetValue assigns them between
\* Lock and Unlock, which is one step taken only when no reader is inside
WritesAsReader(p) == dpc[p] = "gvFetch"

\* C35: lastValue and timeOut are written only under exclusive access: while
\* one goroutine is writing them no other goroutine is inside a section
\* that reads or writes them
C35_ExclusiveWrites ==
    \A p \in Procs : WritesAsReader(p) => Readers \subseteq {p}

\* the value SetValue is called with does not count as a change of the
\* cached one (the test of the type-switch branch SetValue takes)
NoChange(p) == ~ValueChanged(lastValue, dval[p])

\* C36: a SetValue whose value does not qualify as a change leaves the
\* cached value and the deadline as they were and broadcasts nothing; the
\* deadline moves only in a SetValue whose value qualifies
C36_NoChangeNoEffect ==
    [][\A p \in Procs :
          (SetValuePasses(p) /\ NoChange(p)) =>
              /\ lastValue' = lastValue
              /\ timeOut' = timeOut
              /\ NotStored(p)]_vars

\* a PubSubDebouncer whose subscribers do not read: Register, Unregister,
\* GetValue and SetValue callers and the first cycle of each task, within
\* one delay window
NextDebouncerBlocked ==
    \/ \E p \in Procs : RegisterCheck(p)
    \/ \E p \in Procs : RegisterAdd(p)
    \/ \E c \in ChanIds : DebouncerUnregister(c)
    \/ \E p \in Procs : GetValueCheck(p)
    \/ \E p \in Procs, r \in FetchResults : GetValueFetch(p, r)
    \/ \E p \in Procs : GetValueReturn(p)
    \/ \E p \in Procs : GetValueDone(p)
    \/ \E p \in Procs, v \in Values : SetValueCall(p, v)
    \/ \E p \in Procs, r \in FetchResults : FetcherFetch(p, r)
    \/ \E p \in Procs : FetcherSetValue(p)
    \/ \E p \in Procs : SetValueBroadcast(p)
    \/ \E p \in Procs : SetValueSend(p)
    \/ \E p \in Procs : SetValueReturn(p)

SpecDebouncerBlocked == InitDebouncer /\ [][NextDebouncerBlocked]_vars

\* goroutine p is inside the Broadcast of SetValue, at a send on a channel
\* whose buffer is full
BlockedInSend(p) ==
    /\ dpc[p] = "svSend"
    /\ InSendLoop(p)
    /\ ~HasRoom(SendTarget(p))

\* the next step of a call that goroutine q is in, or that it is free to
\* begin, on the PubSub or on the cache, can be taken (the bounds of the
\* model on calls, channels and fetches aside)
CallsProceed(q) ==
    /\ (Caller(q) /\ ncalls < MaxCalls) =>
          /\ ENABLED GetValueCheck(q)
          /\ made < MaxChans => ENABLED RegisterCheck(q)
    /\ (dpc[q] = "regAdd" /\ made < MaxChans) => ENABLED RegisterAdd(q)
    /\ (dpc[q] = "gvFetch" /\ nfetch < MaxFetches) =>
          \A r \in FetchResults : ENABLED GetValueFetch(q, r)
    /\ dpc[q] = "gvRet" => ENABLED GetValueReturn(q)

SetValueSubscribed(p, value) ==
    /\ made > 0
    /\ SetValueCall(p, value)

\* a PubSubDebouncer within one delay window whose subscribers read their
\* channels: Register, Unregister and SetValue callers, the first cycle of
\* each task
NextDebouncerOrder ==
    \/ \E p \in Procs : RegisterCheck(p)
    \/ \E p \in Procs : RegisterAdd(p)
    \/ \E c \in ChanIds : DebouncerUnregister(c)
    \/ \E c \in ChanIds : DebouncerReceive(c)
    \/ \E p \in Procs, r \in FetchResults : FetcherFetch(p, r)
    \/ \E p \in Procs, v \in Values : SetValueSubscribed(p, v)
    \/ \E p \in Procs : FetcherSetValue(p)
    \/ \E p \in Procs : SetValueBroadcast(p)
    \/ \E p \in Procs : SetValueSend(p)
    \/ \E p \in Procs : SetValueReturn(p)

SpecDebouncerOrder == InitDebouncer /\ [][NextDebouncerOrder]_vars

\* no SetValue call is under way, by a caller or by a task
NoSetValueRunning == \A p \in Procs : dpc[p] \notin {"svLock", "svBcast", "svSend"}

\* C38: overlapping SetValue calls deliver their values to a subscriber in
\* the order in which they were stored: once every call has returned and a
\* registered subscriber has emptied its channel, the last value it
\* received is the cached value
C38_BroadcastOrder ==
    NoSetValueRunning =>
        \A c \in Range(clients) :
            (chanBuf[c] = <<>> /\ got[c] # <<>>) =>
                got[c][Len(got[c])] = lastValue

\* the cache of NextDebouncerCycle with the Go scheduler running every
\* goroutine that can take a step and time passing; nothing makes the
\* subscriber read its channel, unregister or cancel
SpecDebouncerCancel ==
    /\ InitDebouncer
    /\ [][NextDebouncerCycle]_vars
    /\ WF_vars(Tick)
    /\ \A p \in Procs : WF_vars(RegisterAdd(p))
    /\ \A p \in Procs : WF_vars(FetcherStep(p))

\* C39: once cancel() has been called every background task ends (the fetch
\* function always returns), whether or not the subscribers go on receiving
\* from their channels
C39_CancelEndsTask ==
    cancelled ~> (Tasks = {} \/ \E p \in Tasks : AtBound(p))

\* the goroutine that posts and the goroutine that calls Result
Poster == 1

Taker == 2

\* a pool used by one goroutine that posts its items one after the other
\* (the k-th Post carries item k, so items are accepted in that order) and
\* one goroutine that calls Result again and again; Close may follow
NextWorkerPoolOrder ==
    \/ PostAdd(Poster)
    \/ PostSendBuffered(Poster)
    \/ \E w \in Workers : PostSendSync(Poster, w)
    \/ \E w \in Workers : WorkerRecv(w)
    \/ \E w \in Workers : WorkerExit(w)
    \/ \E w \in Workers : WorkerSendBuffered(w)
    \/ ResultRecvBuffered(Taker)
    \/ \E w \in Workers : ResultRecvSync(Taker, w)
    \/ ResultDec(Taker)
    \/ CloseAfterPosts

SpecWorkerPoolOrder == InitWorkerPool /\ [][NextWorkerPoolOrder]_vars

\* the i-th result returned is f of the i-th item posted
InPostOrder == \A i \in 1..Len(returned) : returned[i] = WorkFn(i)

\* some result was returned before the result of an item posted earlier
Reordered ==
    \E i, j \in 1..Len(returned) : i < j /\ returned[i] > returned[j]

\* C40: with one worker Result returns the results in the order in which
\* Post accepted their items, the i-th Result giving f of the i-th item;
\* results come back in another order only in a pool of several workers
C40_FIFOPerWorker ==
    /\ numWorkers = 1 => InPostOrder
    /\ Reordered => numWorkers > 1
    /\ \A i \in 1..Len(returned) : \E k \in 1..nPost : returned[i] = WorkFn(k)

\* a pool of one worker has returned the results of three items
C40_Witness ==
    /\ numWorkers = 1
    /\ returned = <<WorkFn(1), WorkFn(2), WorkFn(3)>>

====
